---- MODULE Spec2Model ----
(***************************************************************************)
(* Procedural store and remapper of the PSD procedural logic engine.       *)
(*                                                                         *)
(* Part 1: the pure reducer reconcileTerminalState of the store            *)
(*         (src/store/ProceduralContext.tsx), applied to bounded pairs of  *)
(*         payloads (SpecReconcile).                                       *)
(* Part 2: one output slot of the remapper node                            *)
(*         (src/components/ExportPSDNode.tsx): payload recomputation,      *)
(*         registration, confirmation and the asynchronous draft           *)
(*         generation calls (Spec).                                        *)
(***************************************************************************)
EXTENDS Integers, Sequences, FiniteSets, TLC

(***************************************************************************)
(* Optional values.  A JavaScript value that may be undefined is a set of  *)
(* at most one element: {} is undefined, {v} is the value v.               *)
(***************************************************************************)
Undefined == {}

Def(v) == {v}

IsDef(o) == o # {}

Get(o) == CHOOSE v \in o : TRUE

\* Truthiness of an optional boolean (undefined and false are falsy).
Truthy(o) == o = {TRUE}

\* a || b and a ?? b on optional strings and numbers whose present values
\* are truthy (non-empty URLs, Date.now() ids).
OrElse(a, b) == IF a # {} THEN a ELSE b

\* current?.field for an optional payload.
CurField(currentPayload, f) ==
  IF currentPayload = {} THEN Undefined ELSE Get(currentPayload)[f]

(***************************************************************************)
(* Layer ids are strings; a string is modelled as a sequence of tokens so  *)
(* that String.startsWith is computed and not assumed.                     *)
(***************************************************************************)
GenLayerPrefix == <<"gen-layer-">>

startsWith(s, prefix) ==
  /\ Len(s) >= Len(prefix)
  /\ SubSeq(s, 1, Len(prefix)) = prefix

\* Array.includes on an optional array.
includes(arr, x) == IsDef(arr) /\ \E i \in 1..Len(Get(arr)) : Get(arr)[i] = x

(***************************************************************************)
(* reconcileTerminalState(incomingPayload, currentPayload): the store's    *)
(* reducer.  A payload is a record of optional fields; currentPayload is   *)
(* optional.  The branches are evaluated in the order of the source.       *)
(***************************************************************************)

\* Mutant: the filter drops nothing.
keepsLayerAll(l) == TRUE

\* l => l.type !== 'generative' || (l.id && !l.id.startsWith('gen-layer-'))
keepsLayer(l) ==
  \/ l.type # "generative"
  \/ (l.id # <<>> /\ ~startsWith(l.id, GenLayerPrefix))

\* incomingPayload.layers.filter(...): the top-level array only.
filterLayers(layers) == SelectSeq(layers, LAMBDA l : keepsLayer(l))

\* Mutant: the generation fields survive an idle payload.
idleResetKeeps(incomingPayload) ==
  [incomingPayload EXCEPT !.isPolished = Def(FALSE),
                          !.requiresGeneration = Def(FALSE)]

\* status === 'idle' && !generationId
idleReset(incomingPayload) ==
  [incomingPayload EXCEPT !.previewUrl = Undefined,
                          !.isConfirmed = Def(FALSE),
                          !.isTransient = Def(FALSE),
                          !.isSynthesizing = Def(FALSE),
                          !.isPolished = Def(FALSE),
                          !.requiresGeneration = Def(FALSE),
                          !.sourceReference = Undefined]

\* generationAllowed === false
generationDisabled(incomingPayload) ==
  [incomingPayload EXCEPT !.previewUrl = Undefined,
                          !.isConfirmed = Def(FALSE),
                          !.isTransient = Def(FALSE),
                          !.isSynthesizing = Def(FALSE),
                          !.requiresGeneration = Def(FALSE),
                          !.layers = Def(filterLayers(Get(incomingPayload.layers)))]

\* Mutant: a forced payload takes incoming's cached fields only.
forcedNoInherit(incomingPayload, currentPayload) ==
  [incomingPayload EXCEPT !.status = Def("success"),
                          !.isConfirmed = Def(TRUE),
                          !.isTransient = Def(FALSE)]

\* isForced && requiresGeneration
forced(incomingPayload, currentPayload) ==
  [incomingPayload EXCEPT
     !.status = Def("success"),
     !.isConfirmed = Def(TRUE),
     !.isTransient = Def(FALSE),
     !.isSynthesizing = incomingPayload.isSynthesizing,
     !.previewUrl = OrElse(incomingPayload.previewUrl,
                           CurField(currentPayload, "previewUrl")),
     !.sourceReference = OrElse(incomingPayload.sourceReference,
                                CurField(currentPayload, "sourceReference")),
     !.generationId = OrElse(incomingPayload.generationId,
                             CurField(currentPayload, "generationId"))]

\* status === 'idle' with a generationId
idleWithId(incomingPayload) ==
  [incomingPayload EXCEPT !.previewUrl = Undefined,
                          !.isConfirmed = Def(FALSE),
                          !.isTransient = Def(FALSE),
                          !.isSynthesizing = Def(FALSE)]

\* Mutant: a synthesizing payload replaces the stored preview fields.
synthesizingFlicker(incomingPayload, currentPayload) ==
  [incomingPayload EXCEPT !.isSynthesizing = Def(TRUE),
                          !.generationAllowed = Def(TRUE)]

\* incomingPayload.isSynthesizing
synthesizing(incomingPayload, currentPayload) ==
  LET base == IF currentPayload # {} THEN Get(currentPayload) ELSE incomingPayload
  IN [base EXCEPT
        !.isSynthesizing = Def(TRUE),
        !.previewUrl = CurField(currentPayload, "previewUrl"),
        !.sourceReference = OrElse(incomingPayload.sourceReference,
                                   CurField(currentPayload, "sourceReference")),
        !.targetContainer = OrElse(incomingPayload.targetContainer,
                                   OrElse(CurField(currentPayload, "targetContainer"),
                                          Def(""))),
        !.metrics = OrElse(incomingPayload.metrics,
                           CurField(currentPayload, "metrics")),
        !.generationId = CurField(currentPayload, "generationId"),
        !.generationAllowed = Def(TRUE)]

\* Mutant: the inherited bundle misses the confirmation.
inheritGenerationDropsConfirm(incomingPayload, cur) ==
  [incomingPayload EXCEPT
     !.previewUrl = cur.previewUrl,
     !.generationId = cur.generationId,
     !.generationAllowed = Def(TRUE)]

\* !incomingPayload.generationId && currentPayload?.generationId
inheritGeneration(incomingPayload, cur) ==
  [incomingPayload EXCEPT
     !.previewUrl = cur.previewUrl,
     !.generationId = cur.generationId,
     !.isSynthesizing = cur.isSynthesizing,
     !.isConfirmed = cur.isConfirmed,
     !.isTransient = cur.isTransient,
     !.sourceReference = OrElse(cur.sourceReference, incomingPayload.sourceReference),
     !.generationAllowed = Def(TRUE)]

\* Mutant: a transient payload keeps its confirmation.
takeIncomingKeepsConfirm(incomingPayload, currentPayload) ==
  [incomingPayload EXCEPT
     !.isConfirmed = OrElse(incomingPayload.isConfirmed,
                            OrElse(CurField(currentPayload, "isConfirmed"), Def(FALSE))),
     !.generationAllowed = Def(TRUE)]

\* the final return: incoming with the fallbacks
takeIncoming(incomingPayload, currentPayload) ==
  LET nullish == OrElse(incomingPayload.isConfirmed,
                        OrElse(CurField(currentPayload, "isConfirmed"), Def(FALSE)))
      isConfirmed == IF Truthy(incomingPayload.isTransient) THEN Def(FALSE) ELSE nullish
  IN [incomingPayload EXCEPT
        !.isConfirmed = isConfirmed,
        !.sourceReference = OrElse(incomingPayload.sourceReference,
                                   CurField(currentPayload, "sourceReference")),
        !.generationId = OrElse(incomingPayload.generationId,
                                CurField(currentPayload, "generationId")),
        !.generationAllowed = Def(TRUE)]

\* The conditions of the branches, in source order.
isIdleNoId(p) == p.status = Def("idle") /\ ~IsDef(p.generationId)

isDisabled(p) == p.generationAllowed = Def(FALSE)

isForced(p) ==
  Truthy(p.isMandatory) \/ includes(p.directives, "MANDATORY_GEN_FILL")

\* Mutant: the staleness guard is missing.
isStaleNever(p, currentPayload) == FALSE

\* both carry a generationId and incoming's is smaller
isStale(p, currentPayload) ==
  /\ IsDef(CurField(currentPayload, "generationId"))
  /\ IsDef(p.generationId)
  /\ Get(p.generationId) < Get(CurField(currentPayload, "generationId"))

reconcileTerminalState(incomingPayload, currentPayload) ==
  IF isIdleNoId(incomingPayload) THEN idleReset(incomingPayload)
  ELSE IF isDisabled(incomingPayload) THEN generationDisabled(incomingPayload)
  ELSE IF isForced(incomingPayload) /\ Truthy(incomingPayload.requiresGeneration)
    THEN forced(incomingPayload, currentPayload)
  ELSE IF isStale(incomingPayload, currentPayload) THEN Get(currentPayload)
  ELSE IF incomingPayload.status = Def("idle") THEN idleWithId(incomingPayload)
  ELSE IF Truthy(incomingPayload.isSynthesizing)
    THEN synthesizing(incomingPayload, currentPayload)
  ELSE IF ~IsDef(incomingPayload.generationId)
          /\ IsDef(CurField(currentPayload, "generationId"))
    THEN inheritGeneration(incomingPayload, Get(currentPayload))
  ELSE takeIncoming(incomingPayload, currentPayload)

(***************************************************************************)
(* Bounded inputs of the reducer.                                          *)
(***************************************************************************)
MaxGenId == 2

OptIds == {Undefined} \cup {Def(i) : i \in 1..MaxGenId}

OptBool == {Undefined, Def(TRUE), Def(FALSE)}

Statuses == {Def("success"), Def("idle"), Def("awaiting_confirmation")}

Layer(id, type, children) == [id |-> id, type |-> type, children |-> children]

\* A flat list: a pixel layer, an AI-inserted layer, a replaced source layer.
FlatLayers ==
  << Layer(<<"0">>, "layer", <<>>),
     Layer(<<"gen-layer-", "1">>, "generative", <<>>),
     Layer(<<"2">>, "generative", <<>>) >>

\* A list with a group that holds an AI-inserted layer of its own.
NestedLayers ==
  << Layer(<<"0">>, "group",
           << Layer(<<"0", ".", "0">>, "layer", <<>>),
              Layer(<<"gen-layer-", "2">>, "generative", <<>>) >>),
     Layer(<<"gen-layer-", "1">>, "generative", <<>>),
     Layer(<<"gen-layer-", "3">>, "layer", <<>>) >>

StoredLayers == << Layer(<<"0">>, "layer", <<>>) >>

Rect(x, y, w, h) == [x |-> x, y |-> y, w |-> w, h |-> h]

\* The cached fields an input carries: none, a preview and its reference, or
\* a preview alone.
Shapes == {"bare", "cached", "previewOnly"}

StoredShapes == {"bare", "cached"}

IncomingPayload(st, gid, ga, mand, dir, req, syn, tra, conf, shape) ==
  [status |-> st,
   sourceContainer |-> Def("src"),
   targetContainer |-> Def("tgt"),
   layers |-> Def(IF shape = "bare" THEN FlatLayers ELSE NestedLayers),
   scaleFactor |-> Def(2),
   metrics |-> Def("metrics.new"),
   targetBounds |-> Def(Rect(0, 0, 500, 2000)),
   requiresGeneration |-> req,
   previewUrl |-> IF shape = "bare" THEN Undefined ELSE Def("incoming.png"),
   isConfirmed |-> conf,
   isTransient |-> tra,
   isSynthesizing |-> syn,
   sourceReference |-> IF shape = "cached" THEN Def("incoming.ref") ELSE Undefined,
   generationId |-> gid,
   generationAllowed |-> ga,
   isPolished |-> Undefined,
   directives |-> dir,
   isMandatory |-> mand]

StoredPayload(gid, conf, syn, shape) ==
  [status |-> Def("success"),
   sourceContainer |-> Def("src"),
   targetContainer |-> Def("tgt"),
   layers |-> Def(StoredLayers),
   scaleFactor |-> Def(1),
   metrics |-> Def("metrics.old"),
   targetBounds |-> Def(Rect(0, 0, 1000, 1000)),
   requiresGeneration |-> Def(FALSE),
   previewUrl |-> IF shape = "bare" THEN Undefined ELSE Def("current.png"),
   isConfirmed |-> conf,
   isTransient |-> Def(shape # "bare" /\ conf # Def(TRUE)),
   isSynthesizing |-> syn,
   sourceReference |-> IF shape = "cached" THEN Def("current.ref") ELSE Undefined,
   generationId |-> gid,
   generationAllowed |-> Def(TRUE),
   isPolished |-> Def(FALSE),
   directives |-> Undefined,
   isMandatory |-> Undefined]

VARIABLES incoming, current, effective

rvars == <<incoming, current, effective>>

VARIABLES
  remapInput,               \* the inputs of one remapping of a slot
  remapPayload,             \* its result: the payload's geometry, or undefined
  remapApplied              \* the remapping was computed

gvars == <<remapInput, remapPayload, remapApplied>>

VARIABLES
  composeInput,             \* the payload, the PSD and the preview handed to the compositor
  painted,                  \* what the compositor drew, in order, or undefined
  reviewerOutput,           \* the reviewer node's record of the payload registry
  spinning                  \* a render has replaced a registry and left the slot
                            \* exactly as it found it (history)

\* The variables of the components next to the slot, the reducer and the
\* remapping.
ovars == <<composeInput, painted, reviewerOutput, spinning>>

VARIABLES
  payloadRegistry,          \* handleId -> payload, of the remapper node
  strategy,                 \* the source context's aiStrategy
  globalGenerationAllowed,  \* data.remapperConfig.generationAllowed
  instanceAllowed,          \* data.instanceSettings[0].generationAllowed
  confirmations,            \* confirmations[0]: the confirmed prompt
  isGeneratingPreview,      \* isGeneratingPreview[0]
  lastPromptsRef,           \* lastPromptsRef.current[0]
  calls,                    \* generateContent calls awaiting their response
  issued,                   \* number of calls issued so far
  now,                      \* the last value Date.now() returned
  dirty,                    \* a render is pending (a state the node reads changed)
  apiKey,                   \* process.env.API_KEY is set
  attempt,                  \* history: the last generation attempt that ended
  promptAttempt,            \* history: attempts made for the current prompt value
  feedbackRegistry,         \* the node's record of the feedback registry, if any
  prevFeedbackRef,          \* prevFeedbackRef.current[handle]
  heldUnregister,           \* what the unregisterNode held by the mounted cleanup
                            \* sees: whether the node has payloads and feedback
  storeChanged              \* a registry was replaced since the last render

svars == <<payloadRegistry, strategy, globalGenerationAllowed, instanceAllowed,
           confirmations, isGeneratingPreview, lastPromptsRef, calls, issued, now,
           dirty, apiKey, attempt, promptAttempt, feedbackRegistry, prevFeedbackRef,
           heldUnregister, storeChanged>>

vars == <<incoming, current, effective, svars, gvars, ovars>>

\* The reducer's inputs: any incoming payload against any stored payload or none.
RInit ==
  /\ \E st \in Statuses, gid \in OptIds, ga \in OptBool,
        mand \in {Undefined, Def(TRUE)},
        dir \in {Undefined, Def(<<"MANDATORY_GEN_FILL">>)},
        req \in {Def(TRUE), Def(FALSE)}, syn \in {Def(TRUE), Def(FALSE)},
        tra \in {Def(TRUE), Def(FALSE)}, conf \in OptBool, shape \in Shapes :
       incoming = IncomingPayload(st, gid, ga, mand, dir, req, syn, tra, conf, shape)
  /\ \/ current = Undefined
     \/ \E gid \in OptIds, conf \in OptBool, syn \in {Def(TRUE), Def(FALSE)},
           shape \in StoredShapes :
          current = Def(StoredPayload(gid, conf, syn, shape))
  /\ effective = Undefined

\* One application of the reducer.
Reconcile ==
  /\ effective = Undefined
  /\ effective' = Def(reconcileTerminalState(incoming, current))
  /\ UNCHANGED <<incoming, current>>
  /\ UNCHANGED <<svars, gvars, ovars>>

(***************************************************************************)
(* Properties of the reducer (checked under SpecReconcile).                *)
(***************************************************************************)
Applied == effective # Undefined

Eff == Get(effective)

Cur(f) == CurField(current, f)

\* The conditions of the documented rules, stated on the inputs.
Rule1Applies == incoming.status = Def("idle") /\ incoming.generationId = Undefined

Rule2Applies == incoming.generationAllowed = Def(FALSE)

Rule3Applies ==
  /\ \/ incoming.isMandatory = Def(TRUE)
     \/ incoming.directives = Def(<<"MANDATORY_GEN_FILL">>)
  /\ incoming.requiresGeneration = Def(TRUE)

Rule4Applies ==
  /\ current # Undefined
  /\ Cur("generationId") # Undefined
  /\ incoming.generationId # Undefined
  /\ Get(incoming.generationId) < Get(Cur("generationId"))

Rule5Applies == incoming.status = Def("idle")

Rule6Applies == incoming.isSynthesizing = Def(TRUE)

DefaultCase ==
  ~(Rule1Applies \/ Rule2Applies \/ Rule3Applies \/ Rule4Applies
      \/ Rule5Applies \/ Rule6Applies)

\* C2 as stated: an incoming payload with a smaller generationId than the
\* stored one is discarded and the stored payload returned unchanged, whatever
\* incoming's other fields are.
C2_StaleAlwaysDiscarded ==
  (Applied /\ Rule4Applies) => Eff = Get(current)

\* C2 amended: an incoming payload with a smaller generationId than the
\* stored one is discarded and the stored payload returned unchanged, when
\* generation is not disabled on it and it is not a mandatory request that
\* requires generation (rules 2 and 3 come first).
C2_StaleDiscardedAfterRules23 ==
  (Applied /\ Rule4Applies /\ ~Rule2Applies /\ ~Rule3Applies) => Eff = Get(current)

C2_Witness ==
  /\ Applied /\ Rule4Applies /\ ~Rule2Applies /\ ~Rule3Applies
  /\ incoming.status = Def("awaiting_confirmation")
  /\ incoming.isSynthesizing = Def(TRUE)
  /\ incoming.previewUrl = Def("incoming.png")
  /\ Eff = Get(current)
  /\ Eff.previewUrl = Def("current.png")

\* C5: a mandatory request that requires generation (rules 1 and 2 not
\* applying) comes out with status success and confirmed, and with the
\* previewUrl, sourceReference and generationId of incoming when present and
\* of the stored payload otherwise.
C5_MandatoryForcedAndInherits ==
  (Applied /\ ~Rule1Applies /\ ~Rule2Applies /\ Rule3Applies) =>
     /\ Eff.status = Def("success")
     /\ Eff.isConfirmed = Def(TRUE)
     /\ Eff.previewUrl =
          (IF incoming.previewUrl # Undefined THEN incoming.previewUrl
           ELSE Cur("previewUrl"))
     /\ Eff.sourceReference =
          (IF incoming.sourceReference # Undefined THEN incoming.sourceReference
           ELSE Cur("sourceReference"))
     /\ Eff.generationId =
          (IF incoming.generationId # Undefined THEN incoming.generationId
           ELSE Cur("generationId"))

C5_Witness ==
  /\ Applied /\ ~Rule1Applies /\ ~Rule2Applies /\ Rule3Applies
  /\ incoming.previewUrl = Undefined
  /\ incoming.generationId = Undefined
  /\ incoming.isConfirmed = Def(FALSE)
  /\ incoming.status = Def("awaiting_confirmation")
  /\ Eff.previewUrl = Def("current.png")
  /\ Eff.sourceReference = Def("current.ref")
  /\ Eff.generationId = Def(MaxGenId)
  /\ Eff.isConfirmed = Def(TRUE)

\* C6: a synthesizing incoming payload (rules 1-5 not applying) against a
\* stored payload comes out synthesizing, with the stored payload's previewUrl
\* and isConfirmed.
C6_SynthesizingKeepsPreview ==
  (Applied /\ ~Rule1Applies /\ ~Rule2Applies /\ ~Rule3Applies /\ ~Rule4Applies
     /\ ~Rule5Applies /\ Rule6Applies /\ current # Undefined) =>
     /\ Eff.isSynthesizing = Def(TRUE)
     /\ Eff.previewUrl = Cur("previewUrl")
     /\ Eff.isConfirmed = Cur("isConfirmed")

C6_Witness ==
  /\ Applied /\ ~Rule1Applies /\ ~Rule2Applies /\ ~Rule3Applies /\ ~Rule4Applies
  /\ ~Rule5Applies /\ Rule6Applies /\ current # Undefined
  /\ incoming.previewUrl = Undefined
  /\ incoming.isConfirmed = Def(FALSE)
  /\ Cur("isSynthesizing") = Def(FALSE)
  /\ Eff.previewUrl = Def("current.png")
  /\ Eff.isConfirmed = Def(TRUE)
  /\ Eff.isSynthesizing = Def(TRUE)

\* C7: in the default case an incoming payload without a generationId against
\* a stored payload that has one keeps the stored previewUrl, isConfirmed and
\* generationId and takes incoming's layers, targetBounds and scaleFactor.
C7_GeometryOnlyKeepsGeneration ==
  (Applied /\ DefaultCase /\ incoming.generationId = Undefined
     /\ Cur("generationId") # Undefined) =>
     /\ Eff.previewUrl = Cur("previewUrl")
     /\ Eff.isConfirmed = Cur("isConfirmed")
     /\ Eff.generationId = Cur("generationId")
     /\ Eff.layers = incoming.layers
     /\ Eff.targetBounds = incoming.targetBounds
     /\ Eff.scaleFactor = incoming.scaleFactor

C7_Witness ==
  /\ Applied /\ DefaultCase /\ incoming.generationId = Undefined
  /\ Cur("generationId") = Def(MaxGenId)
  /\ incoming.previewUrl = Undefined
  /\ incoming.isConfirmed = Def(FALSE)
  /\ Eff.previewUrl = Def("current.png")
  /\ Eff.isConfirmed = Def(TRUE)
  /\ Eff.layers = Def(FlatLayers)
  /\ Eff.scaleFactor = Def(2)

\* C8 as stated: every transient incoming payload that reaches the default
\* rule comes out unconfirmed, with or without a generationId.
C8_TransientNeverConfirmed ==
  (Applied /\ DefaultCase /\ incoming.isTransient = Def(TRUE)) =>
     Eff.isConfirmed = Def(FALSE)

\* C8 amended: a transient incoming payload that reaches the default rule
\* comes out unconfirmed when it carries a generationId or the stored payload
\* has none; otherwise it comes out with the stored payload's isConfirmed.
C8_TransientUnconfirmedOrInherited ==
  (Applied /\ DefaultCase /\ incoming.isTransient = Def(TRUE)) =>
     IF incoming.generationId # Undefined \/ Cur("generationId") = Undefined
       THEN Eff.isConfirmed = Def(FALSE)
       ELSE Eff.isConfirmed = Cur("isConfirmed")

C8_Witness ==
  /\ Applied /\ DefaultCase /\ incoming.isTransient = Def(TRUE)
  /\ incoming.generationId # Undefined
  /\ incoming.isConfirmed = Def(TRUE)
  /\ Cur("isConfirmed") = Def(TRUE)
  /\ Eff.isConfirmed = Def(FALSE)

\* A generative layer with the synthetic id prefix.
IsSynthetic(l) == l.type = "generative" /\ startsWith(l.id, <<"gen-layer-">>)

RECURSIVE HasSynthetic(_)
HasSynthetic(layers) ==
  \E i \in 1..Len(layers) :
     IsSynthetic(layers[i]) \/ HasSynthetic(layers[i].children)

RECURSIVE WithoutSynthetic(_)
WithoutSynthetic(layers) ==
  IF layers = <<>> THEN <<>>
  ELSE LET h == Head(layers)
           rest == WithoutSynthetic(Tail(layers))
       IN IF IsSynthetic(h) THEN rest
          ELSE <<[h EXCEPT !.children = WithoutSynthetic(h.children)]>> \o rest

TopWithoutSynthetic(layers) == SelectSeq(layers, LAMBDA l : ~IsSynthetic(l))

StrippedPreview ==
  /\ Eff.previewUrl = Undefined
  /\ Eff.isConfirmed = Def(FALSE)
  /\ Eff.isTransient = Def(FALSE)
  /\ Eff.isSynthesizing = Def(FALSE)

\* C9 as stated: with generation disabled (rule 1 not applying) the result has
\* no preview, is neither confirmed, transient nor synthesizing, and its layer
\* tree holds no synthetic generative layer at any depth while every other
\* layer is kept.
C9_DisabledStripsAtAnyDepth ==
  (Applied /\ ~Rule1Applies /\ Rule2Applies) =>
     /\ StrippedPreview
     /\ ~HasSynthetic(Get(Eff.layers))
     /\ Get(Eff.layers) = WithoutSynthetic(Get(incoming.layers))

\* C9 amended: with generation disabled (rule 1 not applying) the result has
\* no preview, is neither confirmed, transient nor synthesizing, and its
\* top-level layer list is incoming's without the synthetic generative
\* entries, every other entry kept in order with its subtree untouched.
C9_DisabledStripsTopLevel ==
  (Applied /\ ~Rule1Applies /\ Rule2Applies) =>
     /\ StrippedPreview
     /\ Get(Eff.layers) = TopWithoutSynthetic(Get(incoming.layers))

C9_Witness ==
  /\ Applied /\ ~Rule1Applies /\ Rule2Applies
  /\ incoming.previewUrl = Def("incoming.png")
  /\ incoming.isConfirmed = Def(TRUE)
  /\ incoming.isSynthesizing = Def(TRUE)
  /\ Len(Get(incoming.layers)) = 3
  /\ Len(Get(Eff.layers)) = 2
  /\ Eff.previewUrl = Undefined

\* C10: an idle incoming payload without a generationId comes out with no
\* previewUrl and no sourceReference, unconfirmed, not transient and not
\* synthesizing, whatever the stored payload and incoming's other fields.
C10_IdleClearsGeneration ==
  (Applied /\ Rule1Applies) =>
     /\ Eff.previewUrl = Undefined
     /\ Eff.sourceReference = Undefined
     /\ Eff.isConfirmed = Def(FALSE)
     /\ Eff.isTransient = Def(FALSE)
     /\ Eff.isSynthesizing = Def(FALSE)

C10_Witness ==
  /\ Applied /\ Rule1Applies
  /\ incoming.previewUrl = Def("incoming.png")
  /\ incoming.sourceReference = Def("incoming.ref")
  /\ incoming.isConfirmed = Def(TRUE)
  /\ incoming.isMandatory = Def(TRUE)
  /\ Cur("previewUrl") = Def("current.png")
  /\ Eff.previewUrl = Undefined
  /\ Eff.sourceReference = Undefined

(***************************************************************************)
(* The store's payload registry for the remapper node (handleId ->         *)
(* payload) and its two writers.                                           *)
(***************************************************************************)
PayloadFields ==
  {"status", "sourceContainer", "targetContainer", "layers", "scaleFactor",
   "metrics", "targetBounds", "requiresGeneration", "previewUrl", "isConfirmed",
   "isTransient", "isSynthesizing", "sourceReference", "generationId",
   "generationAllowed", "isPolished", "directives", "isMandatory"}

\* nodeRecord[handleId], possibly undefined
Lookup(registry, handleId) ==
  IF handleId \in DOMAIN registry THEN Def(registry[handleId]) ELSE Undefined

\* { ...nodeRecord, [handleId]: payload }
Put(registry, handleId, payload) ==
  [h \in DOMAIN registry \cup {handleId} |->
     IF h = handleId THEN payload ELSE registry[h]]

\* { ...currentPayload, ...partial }, or partial alone cast to a payload
Merge(currentPayload, partial) ==
  [f \in PayloadFields |->
     IF f \in DOMAIN partial THEN partial[f]
     ELSE IF currentPayload = Undefined THEN Undefined
     ELSE Get(currentPayload)[f]]

registerPayload(registry, handleId, payload, masterOverride) ==
  LET currentPayload == Lookup(registry, handleId)
      effectivePayload ==
        IF masterOverride = FALSE
          THEN [payload EXCEPT !.generationAllowed = Def(FALSE)]
          ELSE payload
      reconciledPayload == reconcileTerminalState(effectivePayload, currentPayload)
  IN IF currentPayload # Undefined /\ Get(currentPayload) = reconciledPayload
       THEN registry
       ELSE Put(registry, handleId, reconciledPayload)

updatePayload(registry, handleId, partial) ==
  LET currentPayload == Lookup(registry, handleId)
      has(f) == f \in DOMAIN partial /\ IsDef(partial[f])
      mergedPayload == Merge(currentPayload, partial)
      reconciledPayload == reconcileTerminalState(mergedPayload, currentPayload)
  IN IF currentPayload = Undefined /\ ~has("sourceContainer") /\ ~has("previewUrl")
       THEN registry
     ELSE IF currentPayload # Undefined /\ Get(currentPayload) = reconciledPayload
       THEN registry
     ELSE Put(registry, handleId, reconciledPayload)

\* A node's record without any handle
NoHandles == [h \in {} |-> h]

\* prev[nodeId] || {}, for a registry whose node record may be missing
NodeRecord(nodeRecord) == IF IsDef(nodeRecord) THEN Get(nodeRecord) ELSE NoHandles

\* The node's record of the feedback registry after registerFeedback
registerFeedback(nodeRecord, handleId, feedbackStrategy) ==
  IF Lookup(NodeRecord(nodeRecord), handleId) = Def(feedbackStrategy)
    THEN nodeRecord
    ELSE Def(Put(NodeRecord(nodeRecord), handleId, feedbackStrategy))

\* The node's record of the feedback registry after clearFeedback
clearFeedback(nodeRecord, handleId) ==
  IF ~IsDef(nodeRecord) THEN nodeRecord
  ELSE Def([h \in DOMAIN Get(nodeRecord) \ {handleId} |-> Get(nodeRecord)[h]])

\* Mutant: unregisterNode leaves the registry alone.
unregisterNodeKeeps(seen, nodeRecord, removed) ==
  nodeRecord

\* unregisterNode on one registry: registry[nodeId] && setRegistry(prev =>
\* rest), where seen is registry[nodeId] as the callback's closure has it.
unregisterNode(seen, nodeRecord, removed) ==
  IF seen THEN removed ELSE nodeRecord

(***************************************************************************)
(* JavaScript numbers of the geometry, as exact extended rationals <<n, d>> *)
(* in lowest terms with d >= 0: d = 0 gives Infinity (<<1, 0>>), -Infinity  *)
(* (<<-1, 0>>) and NaN (<<0, 0>>), which is what a division by a zero       *)
(* width or height produces.  Rounding of doubles is not represented.       *)
(***************************************************************************)
Abs(i) == IF i < 0 THEN -i ELSE i

Sgn(i) == IF i < 0 THEN -1 ELSE IF i > 0 THEN 1 ELSE 0

RECURSIVE GCD(_, _)
GCD(a, b) == IF b = 0 THEN a ELSE GCD(b, a % b)

Norm(n, d) ==
  IF d = 0 THEN <<Sgn(n), 0>>
  ELSE LET g == GCD(Abs(n), Abs(d))
           s == IF d < 0 THEN -1 ELSE 1
       IN <<(s * n) \div g, (s * d) \div g>>

Num(i) == <<i, 1>>

NaN == <<0, 0>>

PosInfinity == <<1, 0>>

NegInfinity == <<-1, 0>>

IsNaN(a) == a = NaN

IsFinite(a) == a[2] # 0

\* a + b
Add(a, b) ==
  IF a[2] = 0 /\ b[2] = 0 THEN (IF a = b THEN a ELSE NaN)
  ELSE Norm(a[1] * b[2] + b[1] * a[2], a[2] * b[2])

\* a - b
Sub(a, b) == Add(a, <<-b[1], b[2]>>)

\* a * b
Mul(a, b) == Norm(a[1] * b[1], a[2] * b[2])

\* a / b
Div(a, b) == Mul(a, Norm(b[2], b[1]))

\* a < b (false when either is NaN)
Lt(a, b) ==
  IF a[2] = 0 /\ b[2] = 0 THEN a = NegInfinity /\ b = PosInfinity
  ELSE a[1] * b[2] < b[1] * a[2]

\* a <= b (false when either is NaN)
Le(a, b) == ~IsNaN(a) /\ ~IsNaN(b) /\ ~Lt(b, a)

\* Math.max(a, b)
MathMax(a, b) == IF IsNaN(a) \/ IsNaN(b) THEN NaN ELSE IF Lt(a, b) THEN b ELSE a

\* Math.min(a, b)
MathMin(a, b) == IF IsNaN(a) \/ IsNaN(b) THEN NaN ELSE IF Lt(b, a) THEN b ELSE a

\* Truthiness of an optional id: '' and undefined are falsy
TruthyId(o) == IsDef(o) /\ Get(o) # <<>>

(***************************************************************************)
(* The smart merge of the analyst's overrides with the reviewer's feedback. *)
(***************************************************************************)
LayerOverride(layerId, xOffset, yOffset, individualScale, layoutRole, linkedAnchorId, citedRule) ==
  [layerId |-> layerId, xOffset |-> xOffset, yOffset |-> yOffset,
   individualScale |-> individualScale, layoutRole |-> layoutRole,
   linkedAnchorId |-> linkedAnchorId, citedRule |-> citedRule]

\* arr.find(o => o.layerId === id): the first match, or undefined
findOverride(arr, id) ==
  IF \E i \in 1..Len(arr) : arr[i].layerId = id
    THEN Def(arr[CHOOSE i \in 1..Len(arr) :
                   /\ arr[i].layerId = id
                   /\ \A j \in 1..(i - 1) : arr[j].layerId # id])
    ELSE Undefined

\* new Map(overrides.map(o => [o.layerId, o])).get(id): the last entry wins
feedbackMapGet(overrides, id) ==
  IF \E i \in 1..Len(overrides) : overrides[i].layerId = id
    THEN Def(overrides[CHOOSE i \in 1..Len(overrides) :
                         /\ overrides[i].layerId = id
                         /\ \A j \in (i + 1)..Len(overrides) : overrides[j].layerId # id])
    ELSE Undefined

\* Mutant: the manual entry replaces the original one, role and anchor included.
mergeOriginalReplaces(original, feedbackOverrides) ==
  LET manual == feedbackMapGet(feedbackOverrides, original.layerId)
  IN IF IsDef(manual) THEN Get(manual) ELSE original

\* 1. an original override takes the manual geometry and keeps its role
mergeOriginal(original, feedbackOverrides) ==
  LET manual == feedbackMapGet(feedbackOverrides, original.layerId)
  IN IF IsDef(manual)
       THEN [original EXCEPT
               !.xOffset = Get(manual).xOffset,
               !.yOffset = Get(manual).yOffset,
               !.individualScale = IF IsDef(Get(manual).individualScale)
                                     THEN Get(manual).individualScale
                                     ELSE original.individualScale]
       ELSE original

\* Mutant: every feedback override is appended, known or not.
appendNewAlways(merged, feedbackOverrides) ==
  merged \o feedbackOverrides

\* 2. feedback overrides of layers the list does not have yet are appended
RECURSIVE appendNew(_, _)
appendNew(merged, feedbackOverrides) ==
  IF feedbackOverrides = <<>> THEN merged
  ELSE LET manual == Head(feedbackOverrides)
       IN appendNew(IF IsDef(findOverride(merged, manual.layerId))
                      THEN merged ELSE Append(merged, manual),
                    Tail(feedbackOverrides))

\* mergedOverrides, for a feedback with at least one override
smartMerge(strategyOverrides, feedbackOverrides) ==
  LET originalOverrides == IF IsDef(strategyOverrides) THEN Get(strategyOverrides) ELSE <<>>
      mapped == [i \in 1..Len(originalOverrides) |->
                   mergeOriginal(originalOverrides[i], feedbackOverrides)]
  IN appendNew(mapped, feedbackOverrides)

\* The overrides of effectiveStrategy; feedback is the slot's FeedbackStrategy
\* or undefined.
effectiveOverrides(strategyOverrides, feedback) ==
  IF IsDef(feedback) /\ Len(Get(feedback).overrides) > 0
    THEN Def(smartMerge(strategyOverrides, Get(feedback).overrides))
    ELSE strategyOverrides

(***************************************************************************)
(* transformLayers: the target-relative mapping of the layer tree and, at   *)
(* the root depth, the four physics rules.  env is what the closure reads:  *)
(* sourceRect, targetRect, strategy (the effective one), feedback, the      *)
(* source layers of the container and effectiveAllowed.                     *)
(***************************************************************************)
Bounds(x, y, w, h) == [x |-> Num(x), y |-> Num(y), w |-> Num(w), h |-> Num(h)]

SourceLayer(id, type, coords, children) ==
  [id |-> id, type |-> type, coords |-> coords, children |-> children]

\* strategy?.suggestedScale || 1.0
globalScaleOf(strat) == IF strat.suggestedScale = 0 THEN 1 ELSE strat.suggestedScale

\* strategy?.overrides?.find(o => o.layerId === id)
getOverride(env, id) ==
  IF IsDef(env.strategy.overrides) THEN findOverride(Get(env.strategy.overrides), id)
  ELSE Undefined

\* getOverride(id)?.layoutRole
roleOf(env, id) ==
  LET override == getOverride(env, id)
  IN IF IsDef(override) THEN Get(override).layoutRole ELSE Undefined

\* The default of the parentDeltaX and parentDeltaY arguments; no call passes
\* another value.
parentDelta == Num(0)

\* A replacement that keeps the layer's subtree
replacedLayerKeepsSubtree(env, layer) ==
  [id |-> layer.id, type |-> "generative",
   generativePrompt |-> env.strategy.generativePrompt,
   layoutRole |-> Undefined, linkedAnchorId |-> Undefined, citedRule |-> Undefined,
   coords |-> env.targetRect,
   transform |-> [scaleX |-> Num(1), scaleY |-> Num(1),
                  offsetX |-> env.targetRect.x, offsetY |-> env.targetRect.y],
   children |-> layer.children]

\* The generative replacement of the layer named by strategy.replaceLayerId.
replacedLayer(env, layer) ==
  [id |-> layer.id, type |-> "generative",
   generativePrompt |-> env.strategy.generativePrompt,
   layoutRole |-> Undefined, linkedAnchorId |-> Undefined, citedRule |-> Undefined,
   coords |-> env.targetRect,
   transform |-> [scaleX |-> Num(1), scaleY |-> Num(1),
                  offsetX |-> env.targetRect.x, offsetY |-> env.targetRect.y],
   children |-> Undefined]

\* Mutant: children are shifted rigidly with their parent's scale.
mappedPlaceRigid(env, layer) ==
  [x |-> Add(env.targetRect.x,
             Mul(Sub(layer.coords.x, env.sourceRect.x), Num(globalScaleOf(env.strategy)))),
   y |-> Add(env.targetRect.y,
             Mul(Sub(layer.coords.y, env.sourceRect.y), Num(globalScaleOf(env.strategy))))]

\* geomX + parentDeltaX, geomY + parentDeltaY
mappedPlace(env, layer) ==
  LET relX == Div(Sub(layer.coords.x, env.sourceRect.x), env.sourceRect.w)
      relY == Div(Sub(layer.coords.y, env.sourceRect.y), env.sourceRect.h)
      geomX == Add(env.targetRect.x, Mul(relX, env.targetRect.w))
      geomY == Add(env.targetRect.y, Mul(relY, env.targetRect.h))
  IN [x |-> Add(geomX, parentDelta), y |-> Add(geomY, parentDelta)]

\* The body of layers.map for a layer that is not replaced; children are the
\* transformed children.
mappedLayer(env, layer, children) ==
  LET override == getOverride(env, layer.id)
      place == mappedPlace(env, layer)
      finalX == IF IsDef(override) THEN Add(env.targetRect.x, Get(override).xOffset)
                ELSE place.x
      finalY == IF IsDef(override) THEN Add(env.targetRect.y, Get(override).yOffset)
                ELSE place.y
      individualScale ==
        IF IsDef(override)
          THEN (IF IsDef(Get(override).individualScale)
                  THEN Get(Get(override).individualScale) ELSE NaN)
          ELSE Num(1)
      layerScale == Mul(Num(globalScaleOf(env.strategy)), individualScale)
  IN [id |-> layer.id, type |-> layer.type, generativePrompt |-> Undefined,
      layoutRole |-> IF IsDef(override) THEN Get(override).layoutRole ELSE Undefined,
      linkedAnchorId |-> IF IsDef(override) THEN Get(override).linkedAnchorId
                         ELSE Undefined,
      citedRule |-> IF IsDef(override) THEN Get(override).citedRule ELSE Undefined,
      coords |-> [x |-> finalX, y |-> finalY,
                  w |-> Mul(layer.coords.w, layerScale),
                  h |-> Mul(layer.coords.h, layerScale)],
      transform |-> [scaleX |-> layerScale, scaleY |-> layerScale,
                     offsetX |-> finalX, offsetY |-> finalY],
      children |-> children]

\* layers.map(...) of transformLayers, children included
RECURSIVE mapLayers(_, _)
mapLayers(env, layers) ==
  [i \in 1..Len(layers) |->
     IF env.effectiveAllowed /\ env.strategy.replaceLayerId = Def(layers[i].id)
       THEN replacedLayer(env, layers[i])
       ELSE mappedLayer(env, layers[i],
              IF IsDef(layers[i].children)
                THEN Def(mapLayers(env, Get(layers[i].children)))
                ELSE Undefined)]

\* l.coords.x = newX; l.transform.offsetX = newX
SetX(t, i, newX) == [t EXCEPT ![i].coords.x = newX, ![i].transform.offsetX = newX]

\* l.coords.y = newY; l.transform.offsetY = newY
SetY(t, i, newY) == [t EXCEPT ![i].coords.y = newY, ![i].transform.offsetY = newY]

\* transformed.filter(...): the indices of the kept layers, in order
RECURSIVE filterIdx(_, _)
filterIdx(n, S) ==
  IF n = 0 THEN <<>>
  ELSE IF n \in S THEN Append(filterIdx(n - 1, S), n) ELSE filterIdx(n - 1, S)

\* A grid solver that puts each flow layer at the start of its slot
RECURSIVE gridDistributeAtSlotStart(_, _, _, _)
gridDistributeAtSlotStart(env, t, gridCandidates, i) ==
  IF i > Len(gridCandidates) THEN t
  ELSE LET k == gridCandidates[i]
           n == Num(Len(gridCandidates))
       IN IF env.strategy.layoutMode = Def("DISTRIBUTE_HORIZONTAL")
            THEN gridDistributeAtSlotStart(env,
                   SetX(t, k, Add(env.targetRect.x,
                                  Mul(Num(i - 1), Div(env.targetRect.w, n)))),
                   gridCandidates, i + 1)
          ELSE IF env.strategy.layoutMode = Def("DISTRIBUTE_VERTICAL")
            THEN gridDistributeAtSlotStart(env,
                   SetY(t, k, Add(env.targetRect.y,
                                  Mul(Num(i - 1), Div(env.targetRect.h, n)))),
                   gridCandidates, i + 1)
          ELSE t

\* A. grid solver: the flow layers are centred in equal slots of the target
RECURSIVE gridDistribute(_, _, _, _)
gridDistribute(env, t, gridCandidates, i) ==
  IF i > Len(gridCandidates) THEN t
  ELSE LET k == gridCandidates[i]
           n == Num(Len(gridCandidates))
           half == Num(2)
       IN IF env.strategy.layoutMode = Def("DISTRIBUTE_HORIZONTAL")
            THEN LET slotWidth == Div(env.targetRect.w, n)
                     slotCenter == Add(Add(env.targetRect.x, Mul(Num(i - 1), slotWidth)),
                                       Div(slotWidth, half))
                     newX == Sub(slotCenter, Div(t[k].coords.w, half))
                 IN gridDistribute(env, SetX(t, k, newX), gridCandidates, i + 1)
          ELSE IF env.strategy.layoutMode = Def("DISTRIBUTE_VERTICAL")
            THEN LET slotHeight == Div(env.targetRect.h, n)
                     slotCenter == Add(Add(env.targetRect.y, Mul(Num(i - 1), slotHeight)),
                                       Div(slotHeight, half))
                     newY == Sub(slotCenter, Div(t[k].coords.h, half))
                 IN gridDistribute(env, SetY(t, k, newY), gridCandidates, i + 1)
          ELSE t

gridSolver(env, t) ==
  gridDistribute(env, t,
    filterIdx(Len(t), {k \in 1..Len(t) : roleOf(env, t[k].id) = Def("flow")}), 1)

\* flowItems.sort((a, b) => a.coords.x - b.coords.x): a stable sort of the
\* indices by x
RECURSIVE insertByX(_, _, _)
insertByX(t, sorted, k) ==
  IF sorted = <<>> THEN <<k>>
  ELSE IF Lt(t[k].coords.x, t[Head(sorted)].coords.x) THEN <<k>> \o sorted
  ELSE <<Head(sorted)>> \o insertByX(t, Tail(sorted), k)

RECURSIVE sortByX(_, _)
sortByX(t, items) ==
  IF items = <<>> THEN <<>>
  ELSE insertByX(t, sortByX(t, SubSeq(items, 1, Len(items) - 1)), items[Len(items)])

padding == 10

\* Mutant: the sweep leaves every layer where it is.
collisionSweepSkipped(t, flowItems, i) ==
  t

\* The left-to-right sweep over the sorted flow items, from position i on
RECURSIVE collisionSweep(_, _, _)
collisionSweep(t, flowItems, i) ==
  IF i > Len(flowItems) THEN t
  ELSE LET prev == t[flowItems[i - 1]]
           curr == t[flowItems[i]]
           prevEnd == Add(prev.coords.x, prev.coords.w)
       IN IF Lt(curr.coords.x, Add(prevEnd, Num(padding)))
            THEN collisionSweep(SetX(t, flowItems[i], Add(prevEnd, Num(padding))),
                                flowItems, i + 1)
            ELSE collisionSweep(t, flowItems, i + 1)

\* The layers the collision solver sweeps, in the order of the sweep
flowItemsOf(env, t) ==
  sortByX(t, filterIdx(Len(t),
    {k \in 1..Len(t) : roleOf(env, t[k].id) \in {Def("flow"), Undefined}}))

hasRule(env, rule) ==
  IsDef(env.strategy.physicsRules) /\ Get(env.strategy.physicsRules)[rule]

\* B. collision solver
collisionSolver(env, t) ==
  IF hasRule(env, "preventOverlap")
    THEN collisionSweep(t, flowItemsOf(env, t), 2)
    ELSE t

\* transformed.find(t => t.id === id) and sourceData.layers.find(s => s.id === id)
findLayer(layers, id) ==
  IF \E i \in 1..Len(layers) : layers[i].id = id
    THEN Def(CHOOSE i \in 1..Len(layers) :
               /\ layers[i].id = id
               /\ \A j \in 1..(i - 1) : layers[j].id # id)
    ELSE Undefined

\* Mutant: the overlay keeps the place the mapping gave it.
snapToAnchorNever(env, t, k) ==
  t

\* The overlay at index k is placed at its anchor's new position plus the
\* scaled source offset.
snapToAnchor(env, t, k) ==
  LET anchorId == Get(getOverride(env, t[k].id)).linkedAnchorId
      anchor == IF TruthyId(anchorId) THEN findLayer(t, Get(anchorId)) ELSE Undefined
      sourceOverlay == findLayer(env.sourceLayers, t[k].id)
      sourceAnchor == IF IsDef(anchor) THEN findLayer(env.sourceLayers, Get(anchorId))
                      ELSE Undefined
  IN IF IsDef(anchor) /\ IsDef(sourceOverlay) /\ IsDef(sourceAnchor)
       THEN LET so == env.sourceLayers[Get(sourceOverlay)]
                sa == env.sourceLayers[Get(sourceAnchor)]
                deltaX == Sub(so.coords.x, sa.coords.x)
                deltaY == Sub(so.coords.y, sa.coords.y)
                scale == Num(globalScaleOf(env.strategy))
                newX == Add(t[Get(anchor)].coords.x, Mul(deltaX, scale))
                newY == Add(t[Get(anchor)].coords.y, Mul(deltaY, scale))
            IN SetY(SetX(t, k, newX), k, newY)
       ELSE t

RECURSIVE overlaySweep(_, _, _, _)
overlaySweep(env, t, overlayItems, i) ==
  IF i > Len(overlayItems) THEN t
  ELSE overlaySweep(env, snapToAnchor(env, t, overlayItems[i]), overlayItems, i + 1)

\* C. overlay solver
overlaySolver(env, t) ==
  overlaySweep(env, t,
    filterIdx(Len(t), {k \in 1..Len(t) : roleOf(env, t[k].id) = Def("overlay")}), 1)

\* feedback?.overrides.some(o => o.layerId === id)
isManual(env, id) ==
  IsDef(env.feedback) /\ IsDef(findOverride(Get(env.feedback).overrides, id))

\* Mutant: the clamp only holds the layer back from the far edge.
clampLayerFarEdgeOnly(env, l) ==
  IF isManual(env, l.id) THEN l
  ELSE LET clampedX == MathMin(l.coords.x,
                         Sub(Add(env.targetRect.x, env.targetRect.w), l.coords.w))
           clampedY == MathMin(l.coords.y,
                         Sub(Add(env.targetRect.y, env.targetRect.h), l.coords.h))
       IN [l EXCEPT !.coords.x = clampedX, !.coords.y = clampedY,
                    !.transform.offsetX = clampedX, !.transform.offsetY = clampedY]

\* Mutant: manual layers are clamped like the others.
clampLayerAlways(env, l) ==
  LET clampedX == MathMax(env.targetRect.x,
                    MathMin(l.coords.x, Sub(Add(env.targetRect.x, env.targetRect.w), l.coords.w)))
      clampedY == MathMax(env.targetRect.y,
                    MathMin(l.coords.y, Sub(Add(env.targetRect.y, env.targetRect.h), l.coords.h)))
  IN [l EXCEPT !.coords.x = clampedX, !.coords.y = clampedY,
               !.transform.offsetX = clampedX, !.transform.offsetY = clampedY]

\* The boundary solver's step for one layer
clampLayer(env, l) ==
  IF isManual(env, l.id) THEN l
  ELSE LET minX == env.targetRect.x
           maxX == Sub(Add(env.targetRect.x, env.targetRect.w), l.coords.w)
           clampedX == MathMax(minX, MathMin(l.coords.x, maxX))
           minY == env.targetRect.y
           maxY == Sub(Add(env.targetRect.y, env.targetRect.h), l.coords.h)
           clampedY == MathMax(minY, MathMin(l.coords.y, maxY))
       IN [l EXCEPT !.coords.x = clampedX, !.coords.y = clampedY,
                    !.transform.offsetX = clampedX, !.transform.offsetY = clampedY]

\* D. boundary solver
boundarySolver(env, t) ==
  IF hasRule(env, "preventClipping")
    THEN [k \in 1..Len(t) |-> clampLayer(env, t[k])]
    ELSE t

\* transformLayers(sourceData.layers): the mapping, then the physics engine
\* at the root depth
transformLayers(env) ==
  boundarySolver(env,
    overlaySolver(env,
      collisionSolver(env,
        gridSolver(env, mapLayers(env, env.sourceLayers)))))

(***************************************************************************)
(* The remapping of one slot inside the instances memo: merge, then         *)
(* transformLayers, when the source and the target of the slot are ready.   *)
(***************************************************************************)
AiStrategy(generativePrompt, directives, method, suggestedScale, overrides, layoutMode, physicsRules, replaceLayerId) ==
  [generativePrompt |-> generativePrompt, isExplicitIntent |-> FALSE,
   directives |-> directives, method |-> method, suggestedScale |-> suggestedScale,
   overrides |-> overrides, layoutMode |-> layoutMode, physicsRules |-> physicsRules,
   replaceLayerId |-> replaceLayerId]

FeedbackStrategy(overrides) == [overrides |-> overrides, isCommitted |-> TRUE]

\* What transformLayers closes over, with the effective strategy.
remapEnv(input) ==
  [sourceRect |-> input.sourceRect,
   targetRect |-> input.targetRect,
   strategy |-> [input.aiStrategy EXCEPT
                   !.overrides = effectiveOverrides(input.aiStrategy.overrides,
                                                    input.feedback)],
   feedback |-> input.feedback,
   sourceLayers |-> input.layers,
   effectiveAllowed |-> input.effectiveAllowed]

\* sourceData.ready && targetData.ready
remapReady(input) == input.sourceReady /\ input.targetReady

\* The geometry of the slot's payload (null when the slot is not ready), with
\* the layer list after the mapping and after each of the rules.
remap(input) ==
  IF remapReady(input)
    THEN LET env == remapEnv(input)
             mapped == mapLayers(env, env.sourceLayers)
             gridded == gridSolver(env, mapped)
             collided == collisionSolver(env, gridded)
             anchored == overlaySolver(env, collided)
         IN Def([effectiveStrategy |-> env.strategy,
                 scaleFactor |-> globalScaleOf(env.strategy),
                 targetBounds |-> env.targetRect,
                 mapped |-> mapped,
                 gridded |-> gridded,
                 collided |-> collided,
                 anchored |-> anchored,
                 layers |-> transformLayers(env)])
    ELSE Undefined

(***************************************************************************)
(* Bounded inputs of the remapping: one container with three root layers,   *)
(* one of them a group with a child.                                        *)
(***************************************************************************)
La == <<"a">>

Lb == <<"b">>

Lg == <<"g">>

Ld == <<"g/d">>

RootLayers ==
  << SourceLayer(La, "layer", Bounds(100, 100, 200, 200), Undefined),
     SourceLayer(Lb, "layer", Bounds(150, 300, 300, 100), Undefined),
     SourceLayer(Lg, "group", Bounds(0, 0, 400, 400),
       Def(<< SourceLayer(Ld, "layer", Bounds(50, 50, 100, 100), Undefined) >>)) >>

\* Source and target rectangles, some of zero width or height.
SourceRects ==
  {Bounds(0, 0, 1000, 1000), Bounds(-100, -100, 500, 500),
   Bounds(-10, 0, 0, 1000), Bounds(0, -10, 1000, 0)}

TargetRects == {Bounds(0, 0, 500, 2000), Bounds(50, 50, 200, 2000), Bounds(0, 0, 0, 500)}

ZeroArea(r) == r.w = Num(0) \/ r.h = Num(0)

Ov(layerId, x, y, scale, role, anchor) ==
  LayerOverride(layerId, Num(x), Num(y), Def(Num(scale)), role, anchor, Undefined)

\* The analyst's override lists of the geometry inputs.
GeometryOverrides ==
  {Undefined,
   Def(<< Ov(La, 20, 30, 1, Def("flow"), Undefined),
          Ov(Lb, 40, 50, 1, Def("flow"), Undefined) >>),
   Def(<< Ov(La, 20, 30, 1, Def("overlay"), Def(Lb)) >>),
   Def(<< Ov(La, 20, 30, 1, Def("overlay"), Def(Lb)),
          Ov(Lb, 40, 50, 1, Def("flow"), Undefined) >>),
   Def(<< Ov(La, 20, 30, 1, Def("overlay"), Def(Lb)),
          Ov(Lb, 40, 50, 1, Def("overlay"), Def(Lg)) >>),
   Def(<< Ov(La, 20, 30, 1, Def("overlay"), Def(Lg)),
          Ov(Lb, 40, 50, 1, Def("overlay"), Def(La)) >>),
   Def(<< Ov(La, 20, 30, 1, Def("overlay"), Def(Ld)) >>),
   Def(<< Ov(La, 600, -50, 2, Def("static"), Undefined) >>),
   Def(<< Ov(Lg, 100, 120, 1, Undefined, Undefined) >>)}

GeometryFeedback ==
  {Undefined,
   Def(FeedbackStrategy(<< Ov(La, 450, 1900, 1, Undefined, Undefined) >>))}

PhysicsRules ==
  {Undefined} \cup
  {Def([preventOverlap |-> o, preventClipping |-> c]) : o \in BOOLEAN, c \in BOOLEAN}

LayoutModes == {Undefined, Def("DISTRIBUTE_HORIZONTAL"), Def("DISTRIBUTE_VERTICAL")}

RemapInput(aiStrategy, feedback, sourceRect, targetRect, allowed, sourceReady, targetReady) ==
  [aiStrategy |-> aiStrategy, feedback |-> feedback, layers |-> RootLayers,
   sourceRect |-> sourceRect, targetRect |-> targetRect,
   effectiveAllowed |-> allowed, sourceReady |-> sourceReady,
   targetReady |-> targetReady]

GeometryInputs ==
  {RemapInput(AiStrategy(Def("p1"), Undefined, "GENERATIVE", scale, overrides, mode,
                         rules, replace),
              feedback, sourceRect, targetRect, allowed, TRUE, TRUE) :
     scale \in {1, 2}, overrides \in GeometryOverrides, mode \in LayoutModes,
     rules \in PhysicsRules, replace \in {Undefined, Def(La), Def(Lg)},
     feedback \in GeometryFeedback, sourceRect \in SourceRects,
     targetRect \in TargetRects, allowed \in BOOLEAN}

\* The override lists of the merge inputs: the analyst's and the reviewer's,
\* with repeated layer ids, absent scales and roles on either side.
BaseOverridePool ==
  {LayerOverride(La, Num(10), Num(20), Def(Num(1)), Def("flow"), Undefined, Def("r1")),
   LayerOverride(Lb, Num(30), Num(40), Def(Num(2)), Def("overlay"), Def(La), Undefined),
   LayerOverride(La, Num(50), Num(60), Def(Num(1)), Def("static"), Undefined, Def("r2"))}

FeedbackOverridePool ==
  {LayerOverride(La, Num(110), Num(120), Def(Num(3)), Undefined, Undefined, Undefined),
   LayerOverride(La, Num(210), Num(220), Undefined, Def("static"), Def(Lg), Def("r9")),
   LayerOverride(Lb, Num(310), Num(320), Def(Num(1)), Def("flow"), Undefined, Undefined),
   LayerOverride(Lg, Num(5), Num(5), Def(Num(1)), Undefined, Undefined, Undefined),
   LayerOverride(Lg, Num(7), Num(7), Def(Num(2)), Undefined, Undefined, Undefined)}

MaxOverrides == 2

ListsOver(S) == UNION {[1..n -> S] : n \in 0..MaxOverrides}

MergeInputs ==
  {RemapInput(AiStrategy(Undefined, Undefined, "GEOMETRIC", 1, base, Undefined,
                         Undefined, Undefined),
              feedback, Bounds(0, 0, 1000, 1000), Bounds(0, 0, 500, 2000), TRUE,
              sourceReady, targetReady) :
     base \in {Undefined} \cup {Def(l) : l \in ListsOver(BaseOverridePool)},
     feedback \in {Undefined} \cup
                  {Def(FeedbackStrategy(l)) : l \in ListsOver(FeedbackOverridePool)},
     sourceReady \in BOOLEAN, targetReady \in BOOLEAN}

(***************************************************************************)
(* One output slot (instance 0) of the remapper node.                      *)
(***************************************************************************)
MaxCalls == 2

MaxClock == 2

Handle == "result-out-0"

\* The analyst's strategies the slot can be fed: prompt ('' is undefined),
\* the explicit-intent flag, the directives, the method and the scale.
Prompts == {Undefined, Def("p1"), Def("p2")}

AllStrategies ==
  [generativePrompt : Prompts,
   isExplicitIntent : BOOLEAN,
   directives : {Undefined, Def(<<"MANDATORY_GEN_FILL">>)},
   method : {"GEOMETRIC", "GENERATIVE"},
   suggestedScale : {1, 3},
   overrides : {Undefined},
   layoutMode : {Undefined},
   physicsRules : {Undefined},
   replaceLayerId : {Undefined}]

\* One strategy of each kind the remapper tells apart: plain, awaiting
\* confirmation (scale above 2), mandatory (by directive), geometric; without
\* a prompt only the plain one.
Strategies ==
  {s \in AllStrategies :
     /\ ~s.isExplicitIntent
     /\ (s.directives # Undefined \/ s.method = "GEOMETRIC") => s.suggestedScale = 1
     /\ s.method = "GEOMETRIC" => s.directives = Undefined
     /\ s.generativePrompt = Undefined =>
          (s.method = "GENERATIVE" /\ s.suggestedScale = 1 /\ s.directives = Undefined)}

\* `data:image/png;base64,${base64Data}` of the n-th call's response
ImageUrl(n) == "data:image/png;base64," \o ToString(n)

\* The feedback the reviewer can commit for the slot.
FeedbackPool ==
  {FeedbackStrategy(<< Ov(La, 450, 1900, 1, Undefined, Undefined) >>),
   FeedbackStrategy(<< Ov(La, 40, 50, 1, Undefined, Undefined) >>)}

\* The layers of the slot's source container.
SlotLayers == SubSeq(RootLayers, 1, 1)

\* The transformed layers of the slot: its container is fixed, the strategy
\* and the feedback are the slot's.
RemappedLayers(strat, feedback, allowed) ==
  Get(remap([RemapInput(strat, feedback, Bounds(0, 0, 1000, 1000),
                        Bounds(0, 0, 500, 2000), allowed, TRUE, TRUE)
               EXCEPT !.layers = SlotLayers])).layers

\* strategy.isExplicitIntent || strategy.directives?.includes('MANDATORY_GEN_FILL')
strategyIsMandatory(strat) ==
  IF strat.isExplicitIntent THEN Def(TRUE)
  ELSE IF strat.directives = Undefined THEN Undefined
  ELSE Def(includes(strat.directives, "MANDATORY_GEN_FILL"))

\* The payload the instances memo builds for the slot from the strategy, the
\* confirmations and the store's payload at render time.
computePayload(strat, confirmedPrompt, storePayload, effectiveAllowed, feedback) ==
  LET currentPrompt == strat.generativePrompt
      globalScale == strat.suggestedScale
      isMandatory == strategyIsMandatory(strat)
      isConfirmed == \/ Truthy(isMandatory)
                     \/ (IsDef(currentPrompt) /\ currentPrompt = confirmedPrompt)
      gated == IsDef(currentPrompt) /\ effectiveAllowed
      requiresGeneration == gated /\ isConfirmed
      status == IF gated /\ ~isConfirmed /\ (strat.isExplicitIntent \/ globalScale > 2)
                  THEN "awaiting_confirmation" ELSE "success"
      inheritPreview == CurField(storePayload, "previewUrl")
  IN [status |-> Def(status),
      sourceContainer |-> Def("src"),
      targetContainer |-> Def("tgt"),
      layers |-> Def(RemappedLayers(strat, feedback, effectiveAllowed)),
      scaleFactor |-> Def(globalScale),
      metrics |-> Def("metrics"),
      targetBounds |-> Def(Rect(0, 0, 500, 2000)),
      requiresGeneration |-> Def(requiresGeneration),
      previewUrl |-> inheritPreview,
      isConfirmed |-> Def(isConfirmed),
      isTransient |-> Def(~isConfirmed /\ IsDef(inheritPreview)),
      sourceReference |-> Undefined,
      generationId |-> CurField(storePayload, "generationId"),
      isSynthesizing |-> CurField(storePayload, "isSynthesizing"),
      generationAllowed |-> Def(effectiveAllowed),
      isPolished |-> Undefined,
      directives |-> strat.directives,
      isMandatory |-> isMandatory]


StorePayload == Lookup(payloadRegistry, Handle)

Stored(f) == CurField(StorePayload, f)

effectiveAllowed == globalGenerationAllowed /\ instanceAllowed

\* The values a call of Date.now() can return: not before the last one.
Times == {t \in {now, now + 1} : t <= MaxClock}

NoAttempt == [outcome |-> "none", previewKept |-> TRUE]

\* The slot's FeedbackStrategy in the store, or undefined
SlotFeedback == Lookup(NodeRecord(feedbackRegistry), Handle)

\* feedback?.overrides
overridesOf(feedback) == IF IsDef(feedback) THEN Def(Get(feedback).overrides) ELSE Undefined

SInit ==
  /\ payloadRegistry = NoHandles
  /\ strategy \in Strategies
  /\ globalGenerationAllowed = TRUE
  /\ instanceAllowed = TRUE
  /\ confirmations = Undefined
  /\ isGeneratingPreview = Undefined
  /\ lastPromptsRef = Undefined
  /\ calls = {}
  /\ issued = 0
  /\ now = 1
  /\ dirty = TRUE
  /\ apiKey \in BOOLEAN
  /\ attempt = NoAttempt
  /\ promptAttempt = "none"
  /\ feedbackRegistry = Undefined
  /\ prevFeedbackRef = Undefined
  /\ heldUnregister = [payload |-> FALSE, feedback |-> FALSE]
  /\ storeChanged = FALSE

\* The analyst re-analyses: the source context carries another strategy (the
\* resolved and analysis registries are replaced).
SetStrategy ==
  \E s \in Strategies :
    /\ s # strategy
    /\ strategy' = s
    /\ promptAttempt' =
         IF s.generativePrompt # strategy.generativePrompt THEN "none" ELSE promptAttempt
    /\ dirty' = TRUE
    /\ storeChanged' = TRUE
    /\ UNCHANGED <<payloadRegistry, globalGenerationAllowed, instanceAllowed,
                   confirmations, isGeneratingPreview, lastPromptsRef, calls, issued,
                   now, apiKey, attempt, feedbackRegistry, prevFeedbackRef,
                   heldUnregister, rvars, gvars, ovars>>

\* toggleMasterGeneration, with the effect that clears the local state when
\* the master gate closes.
toggleMasterGeneration ==
  LET newGlobal == ~globalGenerationAllowed
  IN /\ globalGenerationAllowed' = newGlobal
     /\ instanceAllowed' = newGlobal
     /\ confirmations' = IF newGlobal THEN confirmations ELSE Undefined
     /\ isGeneratingPreview' = IF newGlobal THEN isGeneratingPreview ELSE Undefined
     /\ dirty' = TRUE
     /\ UNCHANGED <<payloadRegistry, strategy, lastPromptsRef, calls, issued, now,
                    apiKey, attempt, promptAttempt, feedbackRegistry, prevFeedbackRef,
                    heldUnregister, storeChanged, rvars, gvars, ovars>>

toggleInstanceGeneration ==
  /\ instanceAllowed' = ~instanceAllowed
  /\ dirty' = TRUE
  /\ UNCHANGED <<payloadRegistry, strategy, globalGenerationAllowed, confirmations,
                 isGeneratingPreview, lastPromptsRef, calls, issued, now, apiKey,
                 attempt, promptAttempt, feedbackRegistry, prevFeedbackRef,
                 heldUnregister, storeChanged, rvars, gvars, ovars>>

\* A confirmation that leaves the transient flag as it is
handleConfirmKeepsTransient ==
  /\ effectiveAllowed
  /\ IsDef(Stored("previewUrl"))
  /\ ~Truthy(Stored("isConfirmed"))
  /\ ~Truthy(isGeneratingPreview) /\ ~Truthy(Stored("isSynthesizing"))
  /\ \E t \in Times :
       /\ now' = t
       /\ payloadRegistry' =
            updatePayload(payloadRegistry, Handle,
              [previewUrl |-> Stored("previewUrl"),
               isConfirmed |-> Def(TRUE),
               sourceReference |-> Stored("previewUrl"),
               generationId |-> Def(t)])
  /\ confirmations' = strategy.generativePrompt
  /\ dirty' = TRUE
  /\ storeChanged' = (storeChanged \/ payloadRegistry' # payloadRegistry)
  /\ UNCHANGED <<strategy, globalGenerationAllowed, instanceAllowed,
                 isGeneratingPreview, lastPromptsRef, calls, issued, apiKey, attempt,
                 promptAttempt, feedbackRegistry, prevFeedbackRef, heldUnregister,
                 rvars, gvars, ovars>>

\* The user presses Confirm on the overlay, which shows the stored preview
\* while the slot is allowed, unconfirmed and not generating.
handleConfirmGeneration ==
  /\ effectiveAllowed
  /\ IsDef(Stored("previewUrl"))
  /\ ~Truthy(Stored("isConfirmed"))
  /\ ~Truthy(isGeneratingPreview) /\ ~Truthy(Stored("isSynthesizing"))
  /\ \E t \in Times :
       /\ now' = t
       /\ payloadRegistry' =
            updatePayload(payloadRegistry, Handle,
              [previewUrl |-> Stored("previewUrl"),
               isConfirmed |-> Def(TRUE),
               isTransient |-> Def(FALSE),
               sourceReference |-> Stored("previewUrl"),
               generationId |-> Def(t)])
  /\ confirmations' = strategy.generativePrompt
  /\ dirty' = TRUE
  /\ storeChanged' = (storeChanged \/ payloadRegistry' # payloadRegistry)
  /\ UNCHANGED <<strategy, globalGenerationAllowed, instanceAllowed,
                 isGeneratingPreview, lastPromptsRef, calls, issued, apiKey, attempt,
                 promptAttempt, feedbackRegistry, prevFeedbackRef, heldUnregister,
                 rvars, gvars, ovars>>

\* The reviewer commits its overrides for the slot (handleCommit).
handleCommit ==
  \E f \in FeedbackPool :
    /\ feedbackRegistry' = registerFeedback(feedbackRegistry, Handle, f)
    /\ feedbackRegistry' # feedbackRegistry
    /\ dirty' = TRUE
    /\ storeChanged' = TRUE
    /\ UNCHANGED <<payloadRegistry, strategy, globalGenerationAllowed, instanceAllowed,
                   confirmations, isGeneratingPreview, lastPromptsRef, calls, issued,
                   now, apiKey, attempt, promptAttempt, prevFeedbackRef,
                   heldUnregister, rvars, gvars, ovars>>

\* The reviewer resets the slot (handleReset): clearFeedback replaces the
\* registry whenever the node has a record.
handleReset ==
  /\ IsDef(feedbackRegistry)
  /\ feedbackRegistry' = clearFeedback(feedbackRegistry, Handle)
  /\ dirty' = TRUE
  /\ storeChanged' = TRUE
  /\ UNCHANGED <<payloadRegistry, strategy, globalGenerationAllowed, instanceAllowed,
                 confirmations, isGeneratingPreview, lastPromptsRef, calls, issued,
                 now, apiKey, attempt, promptAttempt, prevFeedbackRef,
                 heldUnregister, rvars, gvars, ovars>>

\* One render of the node and the effects that follow it.  The cleanup of
\* the unregister effect runs first when unregisterNode is a new callback
\* (a registry was replaced), with the callback of the previous render; then
\* the feedback monitor, the registration of the recomputed payload unless a
\* draft is being generated, and the generation effect.  The effects read the
\* render's view of the store and queue their updates in this order.
RenderSlot ==
  /\ dirty
  /\ \E feedback \in {SlotFeedback} :
     \E payload \in {computePayload(strategy, confirmations, StorePayload,
                                     effectiveAllowed, feedback)} :
     \E unregistered \in
          {IF storeChanged
             THEN unregisterNode(heldUnregister.payload, payloadRegistry, NoHandles)
             ELSE payloadRegistry} :
     \E monitored \in
          {IF overridesOf(feedback) # overridesOf(prevFeedbackRef)
                /\ IsDef(Stored("previewUrl"))
             THEN updatePayload(unregistered, Handle,
                    [previewUrl |-> Undefined, isConfirmed |-> Def(FALSE),
                     isTransient |-> Def(FALSE)])
             ELSE unregistered} :
     \E registered \in
          {IF ~Truthy(isGeneratingPreview)
             THEN registerPayload(monitored, Handle, payload, globalGenerationAllowed)
             ELSE monitored} :
       LET currentPrompt == strategy.generativePrompt
           hasPrompt == IsDef(currentPrompt)
           promptChanged == hasPrompt /\ currentPrompt # lastPromptsRef
           isAwaiting == payload.status = Def("awaiting_confirmation")
           hasPreview == IsDef(Stored("previewUrl"))
           isMandatory == Truthy(payload.isMandatory)
                            \/ includes(strategy.directives, "MANDATORY_GEN_FILL")
           needsInitialPreview == (isAwaiting \/ isMandatory) /\ hasPrompt /\ ~hasPreview
           muted == ~Truthy(payload.generationAllowed)
           geometric == ~muted /\ strategy.method = "GEOMETRIC" /\ ~isMandatory
           draft == /\ ~muted /\ ~geometric
                    /\ (promptChanged \/ needsInitialPreview)
                    /\ ~(Truthy(isGeneratingPreview) /\ ~promptChanged)
           replaced ==
             \/ storeChanged /\ (heldUnregister.payload \/ heldUnregister.feedback)
             \/ monitored # unregistered
             \/ registered # monitored
             \/ payloadRegistry' # registered
       IN /\ draft /\ apiKey => issued < MaxCalls
          /\ payloadRegistry' =
               IF geometric /\ (hasPreview \/ Truthy(Stored("isConfirmed")))
                 THEN updatePayload(registered, Handle,
                        [previewUrl |-> Undefined, isConfirmed |-> Def(FALSE),
                         isTransient |-> Def(FALSE)])
               ELSE IF draft
                 THEN updatePayload(registered, Handle, [isSynthesizing |-> Def(TRUE)])
               ELSE registered
          /\ feedbackRegistry' =
               IF storeChanged
                 THEN unregisterNode(heldUnregister.feedback, feedbackRegistry, Undefined)
                 ELSE feedbackRegistry
          /\ prevFeedbackRef' = feedback
          /\ heldUnregister' = [payload |-> payloadRegistry # NoHandles,
                                feedback |-> IsDef(feedbackRegistry)]
          /\ storeChanged' = replaced
          /\ lastPromptsRef' = IF draft THEN currentPrompt ELSE lastPromptsRef
          /\ isGeneratingPreview' =
               IF muted /\ Truthy(isGeneratingPreview) THEN Def(FALSE)
               ELSE IF draft THEN Def(apiKey)
               ELSE isGeneratingPreview
          /\ calls' = IF draft /\ apiKey
                        THEN calls \cup {[seq |-> issued + 1, prompt |-> currentPrompt]}
                        ELSE calls
          /\ issued' = IF draft /\ apiKey THEN issued + 1 ELSE issued
          /\ promptAttempt' = IF draft THEN (IF apiKey THEN "issued" ELSE "ended")
                              ELSE promptAttempt
          /\ attempt' = IF draft /\ ~apiKey
                          THEN [outcome |-> "nokey", previewKept |-> TRUE]
                          ELSE attempt
          /\ dirty' = \/ replaced
                      \/ (muted /\ Truthy(isGeneratingPreview))
                      \/ draft
  /\ UNCHANGED <<strategy, globalGenerationAllowed, instanceAllowed, confirmations,
                 now, apiKey, rvars, gvars>>

\* The render as a step of the slot.
Recompute == RenderSlot /\ UNCHANGED ovars

\* What ends with a call: the finally block and the history.
Settle(c, outcome, registry) ==
  /\ payloadRegistry' = registry
  /\ isGeneratingPreview' = Def(FALSE)
  /\ calls' = calls \ {c}
  /\ attempt' = [outcome |-> outcome,
                 previewKept |-> CurField(Lookup(registry, Handle), "previewUrl")
                                   = Stored("previewUrl")]
  /\ promptAttempt' = IF c.prompt = strategy.generativePrompt THEN "ended"
                      ELSE promptAttempt
  /\ dirty' = TRUE
  /\ storeChanged' = (storeChanged \/ registry # payloadRegistry)
  /\ UNCHANGED <<strategy, globalGenerationAllowed, instanceAllowed, confirmations,
                 lastPromptsRef, issued, apiKey, feedbackRegistry, prevFeedbackRef,
                 heldUnregister, rvars, gvars, ovars>>

\* generateDraft, after the await: the response carries an image.
DraftReturnsImage ==
  \E c \in calls, t \in Times :
    /\ now' = t
    /\ Settle(c, "image",
         updatePayload(payloadRegistry, Handle,
           [previewUrl |-> Def(ImageUrl(c.seq)),
            isTransient |-> Def(TRUE),
            isSynthesizing |-> Def(FALSE),
            generationId |-> Def(t)]))

\* generateDraft, after the await: the response carries no inlineData part.
DraftReturnsNoImage ==
  \E c \in calls :
    /\ Settle(c, "noimage", payloadRegistry)
    /\ UNCHANGED now

\* generateDraft, after the await: the call throws.
DraftThrows ==
  \E c \in calls :
    /\ Settle(c, "throw",
         updatePayload(payloadRegistry, Handle, [isSynthesizing |-> Def(FALSE)]))
    /\ UNCHANGED now

\* The slot's behaviour; the reducer's inputs are not part of it.
NoReconcile == incoming = Undefined /\ current = Undefined /\ effective = Undefined

NoRemap == remapInput = Undefined /\ remapPayload = Undefined /\ remapApplied = FALSE

NoCompose == composeInput = Undefined /\ painted = Undefined

NoReviewer == reviewerOutput = NoHandles /\ spinning = FALSE

Init ==
  /\ SInit
  /\ NoReconcile
  /\ NoRemap
  /\ NoCompose
  /\ NoReviewer

Next ==
  \/ SetStrategy
  \/ toggleMasterGeneration
  \/ toggleInstanceGeneration
  \/ handleConfirmGeneration
  \/ Recompute
  \/ DraftReturnsImage
  \/ DraftReturnsNoImage
  \/ DraftThrows

Spec == Init /\ [][Next]_vars

\* The slot with a reviewer downstream: the strategy asks for a confirmation
\* and stays as it is, the key is set.
FeedbackInit ==
  /\ SInit
  /\ apiKey = TRUE
  /\ strategy = AiStrategy(Def("p1"), Undefined, "GENERATIVE", 3, Undefined, Undefined,
                           Undefined, Undefined)
  /\ NoReconcile
  /\ NoRemap
  /\ NoCompose
  /\ NoReviewer

FeedbackNext ==
  \/ handleConfirmGeneration
  \/ handleCommit
  \/ handleReset
  \/ Recompute
  \/ DraftReturnsImage
  \/ DraftReturnsNoImage
  \/ DraftThrows

SpecFeedback == FeedbackInit /\ [][FeedbackNext]_vars

\* The reducer applied to its bounded inputs; the slot is not running.
\* The slot before its first render, with a plain strategy.
SlotIdle ==
  /\ SInit
  /\ apiKey = TRUE
  /\ strategy = AiStrategy(Undefined, Undefined, "GENERATIVE", 1, Undefined, Undefined,
                           Undefined, Undefined)

ReconcileInit ==
  /\ RInit
  /\ NoRemap
  /\ NoCompose
  /\ NoReviewer
  /\ SlotIdle

ReconcileNext == Reconcile

SpecReconcile == ReconcileInit /\ [][ReconcileNext]_vars

(***************************************************************************)
(* The remapping applied to its bounded inputs; the slot is not running.    *)
(***************************************************************************)
RemapInit ==
  /\ remapInput \in {Def(i) : i \in MergeInputs \cup GeometryInputs}
  /\ remapPayload = Undefined
  /\ remapApplied = FALSE
  /\ NoReconcile
  /\ NoCompose
  /\ NoReviewer
  /\ SlotIdle

\* One computation of the slot's geometry in the instances memo.
Remap ==
  /\ ~remapApplied
  /\ remapApplied' = TRUE
  /\ remapPayload' = remap(Get(remapInput))
  /\ UNCHANGED <<remapInput, rvars, svars, ovars>>

RemapNext == Remap

SpecRemap == RemapInit /\ [][RemapNext]_vars

(***************************************************************************)
(* Properties of the remapping (checked under SpecRemap).                   *)
(***************************************************************************)
In == Get(remapInput)

Out == Get(remapPayload)

Remapped == remapApplied /\ IsDef(remapPayload)

BaseList == IF IsDef(In.aiStrategy.overrides) THEN Get(In.aiStrategy.overrides) ELSE <<>>

FeedbackList == IF IsDef(In.feedback) THEN Get(In.feedback).overrides ELSE <<>>

EffectiveList == Get(Out.effectiveStrategy.overrides)

InList(list, id) == \E i \in 1..Len(list) : list[i].layerId = id

\* C13: with a non-empty feedback, every base override whose layerId is also
\* in the feedback is in the effective list with the base's layoutRole,
\* linkedAnchorId and citedRule and with the xOffset and yOffset of a feedback
\* entry for that layer, and with that entry's individualScale when it has one.
C13_MergeKeepsRoleTakesGeometry ==
  (Remapped /\ FeedbackList # <<>>) =>
    \A i \in 1..Len(BaseList) :
      InList(FeedbackList, BaseList[i].layerId) =>
        \E k \in 1..Len(EffectiveList), j \in 1..Len(FeedbackList) :
          /\ FeedbackList[j].layerId = BaseList[i].layerId
          /\ EffectiveList[k].layerId = BaseList[i].layerId
          /\ EffectiveList[k].layoutRole = BaseList[i].layoutRole
          /\ EffectiveList[k].linkedAnchorId = BaseList[i].linkedAnchorId
          /\ EffectiveList[k].citedRule = BaseList[i].citedRule
          /\ EffectiveList[k].xOffset = FeedbackList[j].xOffset
          /\ EffectiveList[k].yOffset = FeedbackList[j].yOffset
          /\ IsDef(FeedbackList[j].individualScale) =>
               EffectiveList[k].individualScale = FeedbackList[j].individualScale

\* A base override with a role and an anchor meets a feedback entry for its
\* layer that carries another role.
C13_Witness ==
  /\ Remapped
  /\ \E i \in 1..Len(BaseList), j \in 1..Len(FeedbackList) :
       /\ FeedbackList[j].layerId = BaseList[i].layerId
       /\ BaseList[i].layoutRole = Def("flow")
       /\ FeedbackList[j].layoutRole = Def("static")
       /\ EffectiveList[i].layoutRole = Def("flow")
       /\ EffectiveList[i].xOffset = FeedbackList[j].xOffset

IsNewOverride(o) == ~InList(BaseList, o.layerId)

\* The feedback overrides of layers the base does not name, in F's order
NewFeedback == SelectSeq(FeedbackList, IsNewOverride)

\* ... and of those, only the first one for each layer
RECURSIVE FirstPerLayer(_, _)
FirstPerLayer(list, seen) ==
  IF list = <<>> THEN <<>>
  ELSE IF Head(list).layerId \in seen THEN FirstPerLayer(Tail(list), seen)
  ELSE <<Head(list)>> \o FirstPerLayer(Tail(list), seen \cup {Head(list).layerId})

EffectiveIs(appended) ==
  IF FeedbackList = <<>>
    THEN Out.effectiveStrategy.overrides = In.aiStrategy.overrides
    ELSE /\ Len(EffectiveList) = Len(BaseList) + Len(appended)
         /\ \A i \in 1..Len(BaseList) : EffectiveList[i].layerId = BaseList[i].layerId
         /\ \A j \in 1..Len(appended) : EffectiveList[Len(BaseList) + j] = appended[j]

\* C14 (as stated): the effective list is one entry per base entry, in the
\* base's order, followed by one verbatim entry per feedback override whose
\* layerId is not in the base, in the feedback's order; with an empty feedback
\* it is the base.
C14_MergeKeepsEveryEntry ==
  Remapped => EffectiveIs(NewFeedback)

\* C14 (amended): ... followed by one verbatim entry per layerId of the
\* feedback that is not in the base, the first feedback override of that
\* layer, in the feedback's order; later feedback overrides of the same new
\* layer are dropped.
C14_MergeKeepsFirstPerNewLayer ==
  Remapped => EffectiveIs(FirstPerLayer(NewFeedback, {}))

\* A feedback with two overrides of one layer the base does not name.
C14_Witness ==
  /\ Remapped
  /\ Len(BaseList) > 0
  /\ Len(NewFeedback) = 2
  /\ NewFeedback[1].layerId = NewFeedback[2].layerId
  /\ Len(EffectiveList) = Len(BaseList) + 1

SaneRects == ~ZeroArea(In.sourceRect) /\ ~ZeroArea(In.targetRect)

\* C15: when the source or the target rectangle of a slot has zero width or
\* zero height, no payload is produced for the slot.
C15_ZeroAreaRejected ==
  (remapApplied /\ (ZeroArea(In.sourceRect) \/ ZeroArea(In.targetRect)))
    => remapPayload = Undefined

\* The (source layer, transformed layer) pairs of the tree, children included
LayerPairs ==
  {<<In.layers[k], Out.layers[k], Out.mapped[k]>> : k \in 1..Len(In.layers)} \cup
  UNION {IF IsDef(In.layers[k].children) /\ IsDef(Out.layers[k].children)
           THEN {<<Get(In.layers[k].children)[j], Get(Out.layers[k].children)[j],
                   Get(Out.mapped[k].children)[j]>> :
                   j \in 1..Len(Get(In.layers[k].children))}
           ELSE {} : k \in 1..Len(In.layers)}

IsReplaced(id) == In.effectiveAllowed /\ In.aiStrategy.replaceLayerId = Def(id)

\* x = targetRect.x + ((bounds.x - sourceRect.x) / sourceRect.w) * targetRect.w,
\* y analogously, size = bounds size * scaleFactor
TargetRelative(src, out) ==
  /\ out.coords.x = Add(In.targetRect.x,
                        Mul(Div(Sub(src.coords.x, In.sourceRect.x), In.sourceRect.w),
                            In.targetRect.w))
  /\ out.coords.y = Add(In.targetRect.y,
                        Mul(Div(Sub(src.coords.y, In.sourceRect.y), In.sourceRect.h),
                            In.targetRect.h))
  /\ out.coords.w = Mul(src.coords.w, Num(Out.scaleFactor))
  /\ out.coords.h = Mul(src.coords.h, Num(Out.scaleFactor))

Unmoved(p) ==
  /\ ~InList(IF IsDef(Out.effectiveStrategy.overrides) THEN EffectiveList ELSE <<>>,
             p[1].id)
  /\ p[2].coords = p[3].coords

Rule(r) ==
  IsDef(In.aiStrategy.physicsRules) /\ Get(In.aiStrategy.physicsRules)[r]

EffectiveRole(id) ==
  IF IsDef(Out.effectiveStrategy.overrides) /\ InList(EffectiveList, id)
    THEN EffectiveList[CHOOSE i \in 1..Len(EffectiveList) :
                         /\ EffectiveList[i].layerId = id
                         /\ \A j \in 1..(i - 1) : EffectiveList[j].layerId # id]
    ELSE [layoutRole |-> Undefined, linkedAnchorId |-> Undefined]

\* The root layers the collision rule applies to: role flow or no role
FlowLayers == {k \in 1..Len(In.layers) :
                 EffectiveRole(In.layers[k].id).layoutRole \in {Def("flow"), Undefined}}

\* Every two of the flow layers are 10 apart horizontally: the one to the
\* right starts at or after the other's x + w + 10.
Separated(layers) ==
  \A p \in FlowLayers, q \in FlowLayers :
    p # q =>
      \/ Le(Add(Add(layers[p].coords.x, layers[p].coords.w), Num(10)), layers[q].coords.x)
      \/ Le(Add(Add(layers[q].coords.x, layers[q].coords.w), Num(10)), layers[p].coords.x)

\* C17 (as stated): with preventOverlap, in the final output the flow and
\* role-less root layers, in ascending x, are each at least 10 past the end
\* of the previous one, whatever the other rules.
C17_FinalFlowSeparated ==
  (Remapped /\ SaneRects /\ Rule("preventOverlap")) => Separated(Out.layers)

\* C17 (amended): with preventOverlap they are so after the collision rule,
\* and in the final output when preventClipping is not set; boundary
\* clamping, which runs last, can push them back onto each other.
C17_FlowSeparatedBeforeClamp ==
  (Remapped /\ SaneRects /\ Rule("preventOverlap")) =>
    /\ Separated(Out.collided)
    /\ ~Rule("preventClipping") => Separated(Out.layers)

\* Three overlapping layers are swept: the third is pushed past the second,
\* which was pushed itself.
C17_Witness ==
  /\ Remapped /\ SaneRects /\ Rule("preventOverlap") /\ ~Rule("preventClipping")
  /\ Cardinality(FlowLayers) = 3
  /\ ~Separated(Out.mapped)
  /\ \E p \in FlowLayers, q \in FlowLayers :
       /\ Out.layers[p].coords.x # Out.mapped[p].coords.x
       /\ Out.layers[q].coords.x
            = Add(Add(Out.layers[p].coords.x, Out.layers[p].coords.w), Num(10))

\* The root overlays with a linkedAnchorId naming another root layer, with
\* the anchor's index
AnchoredOverlays ==
  {<<k, a>> \in (1..Len(In.layers)) \X (1..Len(In.layers)) :
     /\ k # a
     /\ EffectiveRole(In.layers[k].id).layoutRole = Def("overlay")
     /\ EffectiveRole(In.layers[k].id).linkedAnchorId = Def(In.layers[a].id)}

\* overlay - anchor = (sourceOverlay - sourceAnchor) * scaleFactor, on both axes
FollowsAnchor(k, a) ==
  /\ Sub(Out.layers[k].coords.x, Out.layers[a].coords.x)
       = Mul(Sub(In.layers[k].coords.x, In.layers[a].coords.x), Num(Out.scaleFactor))
  /\ Sub(Out.layers[k].coords.y, Out.layers[a].coords.y)
       = Mul(Sub(In.layers[k].coords.y, In.layers[a].coords.y), Num(Out.scaleFactor))

\* C18 (as stated): every root overlay whose linkedAnchorId names another
\* layer of the set ends at its anchor's final position plus the scaled
\* source offset, whatever moved the anchor (override, grid, collision,
\* clamping, or being an overlay itself).
C18_OverlayFollowsAnchor ==
  (Remapped /\ SaneRects) => \A p \in AnchoredOverlays : FollowsAnchor(p[1], p[2])

\* C18 (amended): ... when nothing moves the anchor or the overlay after the
\* overlay was placed: preventClipping is not set and the anchor is not an
\* overlay that comes later in the layer order.
C18_OverlayFollowsSettledAnchor ==
  (Remapped /\ SaneRects /\ ~Rule("preventClipping")) =>
    \A p \in AnchoredOverlays :
      ~(EffectiveRole(In.layers[p[2]].id).layoutRole = Def("overlay") /\ p[2] > p[1])
        => FollowsAnchor(p[1], p[2])

\* An overlay follows an anchor that the collision rule pushed.
C18_Witness ==
  /\ Remapped /\ SaneRects /\ ~Rule("preventClipping")
  /\ \E p \in AnchoredOverlays :
       /\ Out.layers[p[2]].coords.x # Out.mapped[p[2]].coords.x
       /\ Out.layers[p[1]].coords # Out.mapped[p[1]].coords
       /\ FollowsAnchor(p[1], p[2])

IsManualLayer(id) == InList(FeedbackList, id)

\* C19: with preventClipping, every root layer that is not in the feedback
\* overrides ends inside the target on each axis when it fits, and at the
\* target's origin on an axis where it is as large as the target or larger
\* (rectangles of non-zero area).
C19_ClampedIntoTarget ==
  (Remapped /\ SaneRects /\ Rule("preventClipping")) =>
    \A k \in 1..Len(Out.layers) :
      ~IsManualLayer(Out.layers[k].id) =>
        LET c == Out.layers[k].coords
            t == In.targetRect
        IN /\ IF Lt(c.w, t.w)
                THEN Le(t.x, c.x) /\ Le(c.x, Sub(Add(t.x, t.w), c.w))
                ELSE c.x = t.x
           /\ IF Lt(c.h, t.h)
                THEN Le(t.y, c.y) /\ Le(c.y, Sub(Add(t.y, t.h), c.h))
                ELSE c.y = t.y

\* One layer as wide as the target is brought to its origin and another that
\* fits is brought back inside.
C19_Witness ==
  /\ Remapped /\ SaneRects /\ Rule("preventClipping")
  /\ \E k \in 1..Len(Out.layers), m \in 1..Len(Out.layers) :
       /\ ~IsManualLayer(Out.layers[k].id) /\ ~IsManualLayer(Out.layers[m].id)
       /\ Out.layers[k].coords.w = In.targetRect.w
       /\ Out.anchored[k].coords.x # In.targetRect.x
       /\ Out.layers[k].coords.x = In.targetRect.x
       /\ Lt(Out.layers[m].coords.h, In.targetRect.h)
       /\ Out.anchored[m].coords # Out.layers[m].coords

\* C20: with preventClipping, a layer whose id is in the feedback overrides
\* keeps the position it had before the clamp rule, even outside the target.
C20_ManualNotClamped ==
  (Remapped /\ SaneRects /\ Rule("preventClipping")) =>
    \A k \in 1..Len(Out.layers) :
      IsManualLayer(Out.layers[k].id) => Out.layers[k].coords = Out.anchored[k].coords

\* A manual layer stays partly outside the target while the rule is on.
C20_Witness ==
  /\ Remapped /\ SaneRects /\ Rule("preventClipping")
  /\ \E k \in 1..Len(Out.layers) :
       /\ IsManualLayer(Out.layers[k].id)
       /\ Lt(Add(In.targetRect.x, In.targetRect.w),
             Add(Out.layers[k].coords.x, Out.layers[k].coords.w))
       /\ Out.layers[k].coords = Out.anchored[k].coords

\* The root layers of effective role flow, in the order of the layer list
GridCandidates ==
  filterIdx(Len(In.layers),
            {k \in 1..Len(In.layers) :
               EffectiveRole(In.layers[k].id).layoutRole = Def("flow")})

\* The centre of the i-th of n equal slots of a span (i from 1)
SlotCentre(start, span, i, n) ==
  Add(start, Div(Mul(Sub(Mul(Num(2), Num(i)), Num(1)), span), Mul(Num(2), Num(n))))

LayoutMode(mode) == In.aiStrategy.layoutMode = Def(mode)

\* C21: with DISTRIBUTE_HORIZONTAL and N >= 1 root layers of effective role
\* flow, after the grid rule the i-th of them in list order is centred on the
\* centre of the i-th of N equal slots of the target width and keeps its y;
\* DISTRIBUTE_VERTICAL is the same on y with the target height; every other
\* root layer, and every child, is as the mapping left it.
C21_GridCentresFlowLayers ==
  (Remapped /\ (LayoutMode("DISTRIBUTE_HORIZONTAL") \/ LayoutMode("DISTRIBUTE_VERTICAL"))) =>
    LET n == Len(GridCandidates)
        t == In.targetRect
    IN /\ \A i \in 1..n :
            LET g == Out.gridded[GridCandidates[i]]
                m == Out.mapped[GridCandidates[i]]
            IN /\ g.coords.w = m.coords.w /\ g.coords.h = m.coords.h
               /\ g.children = m.children
               /\ IF LayoutMode("DISTRIBUTE_HORIZONTAL")
                    THEN /\ Add(g.coords.x, Div(g.coords.w, Num(2)))
                              = SlotCentre(t.x, t.w, i, n)
                         /\ g.coords.y = m.coords.y
                    ELSE /\ Add(g.coords.y, Div(g.coords.h, Num(2)))
                              = SlotCentre(t.y, t.h, i, n)
                         /\ g.coords.x = m.coords.x
       /\ \A k \in 1..Len(In.layers) :
            (\A i \in 1..n : GridCandidates[i] # k) => Out.gridded[k] = Out.mapped[k]

\* Two flow layers are centred at a quarter and three quarters of the target
\* width, away from where the mapping put them, next to a layer that is not
\* a flow layer.
C21_Witness ==
  /\ Remapped /\ LayoutMode("DISTRIBUTE_HORIZONTAL")
  /\ Len(GridCandidates) = 2 /\ Len(In.layers) > 2
  /\ In.targetRect = Bounds(0, 0, 500, 2000)
  /\ \A i \in 1..2 :
       /\ Out.gridded[GridCandidates[i]].coords.x # Out.mapped[GridCandidates[i]].coords.x
       /\ Add(Out.gridded[GridCandidates[i]].coords.x,
              Div(Out.gridded[GridCandidates[i]].coords.w, Num(2)))
            = Num(IF i = 1 THEN 125 ELSE 375)

\* The root layers the strategy replaces by a generated one
ReplacedLayers == {k \in 1..Len(In.layers) : IsReplaced(In.layers[k].id)}

IsGenerativeLeaf(layer) == layer.type = "generative" /\ layer.children = Undefined

MappedX(src) ==
  Add(In.targetRect.x,
      Mul(Div(Sub(src.coords.x, In.sourceRect.x), In.sourceRect.w), In.targetRect.w))

MappedY(src) ==
  Add(In.targetRect.y,
      Mul(Div(Sub(src.coords.y, In.sourceRect.y), In.sourceRect.h), In.targetRect.h))

\* The root groups that keep their children in the payload
RootGroups ==
  {k \in 1..Len(In.layers) : IsDef(In.layers[k].children) /\ IsDef(Out.layers[k].children)}

\* C23: the physics rules leave the children of root layers as the mapping
\* made them, and every child (without an override of its own) of a root
\* group is displaced from its target-relative place by as much as the group
\* is displaced from its own, whether an override or a physics rule moved
\* the group.
C23_ChildrenFollowGroup ==
  (Remapped /\ SaneRects) =>
    \A k \in RootGroups :
      /\ Out.layers[k].children = Out.mapped[k].children
      /\ \A j \in 1..Len(Get(In.layers[k].children)) :
           LET src == Get(In.layers[k].children)[j]
               out == Get(Out.layers[k].children)[j]
           IN ~InList(IF IsDef(Out.effectiveStrategy.overrides)
                        THEN EffectiveList ELSE <<>>, src.id) =>
                /\ Sub(out.coords.x, MappedX(src))
                     = Sub(Out.layers[k].coords.x, MappedX(In.layers[k]))
                /\ Sub(out.coords.y, MappedY(src))
                     = Sub(Out.layers[k].coords.y, MappedY(In.layers[k]))

(***************************************************************************)
(* The compositor: drawLayers of compositePayloadToCanvas.  A layer id is   *)
(* the path of the layer in the PSD, a sequence of indices; the PSD is the  *)
(* set of paths whose layer holds a canvas.                                 *)
(***************************************************************************)
PaintLayer(id, type, isVisible, children) ==
  [id |-> id, type |-> type, isVisible |-> isVisible, children |-> children]

\* findLayerByPath(psd, layer.id) with sourceLayer && sourceLayer.canvas
hasCanvas(psd, id) == id \in psd

\* A compositor that never looks at isVisible
RECURSIVE drawLayersIgnoringVisibility(_, _, _)
drawLayersIgnoringVisibility(layers, psd, previewUrl) ==
  IF layers = <<>> THEN <<>>
  ELSE LET layer == Head(layers)
           drawn ==
             IF layer.type = "group" /\ IsDef(layer.children)
               THEN drawLayersIgnoringVisibility(Get(layer.children), psd, previewUrl)
             ELSE IF layer.type = "generative"
               THEN << [id |-> layer.id,
                        what |-> IF IsDef(previewUrl) THEN "preview" ELSE "placeholder"] >>
             ELSE IF hasCanvas(psd, layer.id)
               THEN << [id |-> layer.id, what |-> "canvas"] >>
             ELSE <<>>
       IN drawn \o drawLayersIgnoringVisibility(Tail(layers), psd, previewUrl)

\* drawLayers: what is drawn for a layer list, in order
RECURSIVE drawLayers(_, _, _)
drawLayers(layers, psd, previewUrl) ==
  IF layers = <<>> THEN <<>>
  ELSE LET layer == Head(layers)
           drawn ==
             IF ~layer.isVisible THEN <<>>
             ELSE IF layer.type = "group" /\ IsDef(layer.children)
               THEN drawLayers(Get(layer.children), psd, previewUrl)
             ELSE IF layer.type = "generative"
               THEN << [id |-> layer.id,
                        what |-> IF IsDef(previewUrl) THEN "preview" ELSE "placeholder"] >>
             ELSE IF hasCanvas(psd, layer.id)
               THEN << [id |-> layer.id, what |-> "canvas"] >>
             ELSE <<>>
       IN drawn \o drawLayers(Tail(layers), psd, previewUrl)

\* Bounded payloads for the compositor: two root layers, the first a leaf or
\* a group of up to two nodes, one of which can be a group of one leaf.
PaintLeaves(id) ==
  {PaintLayer(id, type, isVisible, Undefined) :
     type \in {"layer", "generative"}, isVisible \in BOOLEAN}

PaintInnerGroups(id) ==
  {PaintLayer(id, "group", isVisible, Def(children)) :
     isVisible \in BOOLEAN,
     children \in {<<>>} \cup {<<c>> : c \in PaintLeaves(id \o <<0>>)}}

PaintGroups(id) ==
  {PaintLayer(id, "group", isVisible, Def(children)) :
     isVisible \in BOOLEAN,
     children \in {<<>>}
       \cup {<<c>> : c \in PaintLeaves(id \o <<0>>) \cup PaintInnerGroups(id \o <<0>>)}
       \cup {<<c, d>> : c \in PaintInnerGroups(id \o <<0>>),
                        d \in PaintLeaves(id \o <<1>>)}}

PaintTrees ==
  {<<first, second>> : first \in PaintLeaves(<<0>>) \cup PaintGroups(<<0>>),
                       second \in PaintLeaves(<<1>>)}

PaintPaths == {<<0>>, <<1>>, <<0, 0>>, <<0, 1>>, <<0, 0, 0>>}

\* The PSDs: every layer holds a canvas, or all but one, or none.
PaintPsds == {PaintPaths, {}} \cup {PaintPaths \ {q} : q \in {<<1>>, <<0, 1>>, <<0, 0, 0>>}}

ComposeInputs ==
  [layers : PaintTrees, psd : PaintPsds, previewUrl : {Undefined, Def(ImageUrl(1))}]

ComposeInit ==
  /\ composeInput \in {Def(i) : i \in ComposeInputs}
  /\ painted = Undefined
  /\ NoReconcile
  /\ NoRemap
  /\ SlotIdle
  /\ NoReviewer

\* One run of the compositor on a payload.
Compose ==
  /\ painted = Undefined
  /\ painted' = Def(drawLayers(Get(composeInput).layers, Get(composeInput).psd,
                               Get(composeInput).previewUrl))
  /\ UNCHANGED <<composeInput, reviewerOutput, spinning, rvars, svars, gvars>>

ComposeNext == Compose

SpecCompose == ComposeInit /\ [][ComposeNext]_vars

(***************************************************************************)
(* Properties of the compositor (checked under SpecCompose).                *)
(***************************************************************************)
Painted == Get(painted)

\* The nodes of a layer list, each with the visibility of its ancestors
RECURSIVE NodesOf(_, _)
NodesOf(layers, shown) ==
  UNION {{[layer |-> layers[i], shown |-> shown]} \cup
         (IF IsDef(layers[i].children)
            THEN NodesOf(Get(layers[i].children), shown /\ layers[i].isVisible)
            ELSE {}) : i \in 1..Len(layers)}

PaintNodes == NodesOf(Get(composeInput).layers, TRUE)

\* The leaves that are visible under visible ancestors
ShownLeaves ==
  {n.layer.id : n \in {m \in PaintNodes :
                         m.layer.type # "group" /\ m.layer.isVisible /\ m.shown}}

\* Of these, the ones the compositor has something to draw for
DrawableLeaves ==
  {n.layer.id : n \in {m \in PaintNodes :
                         /\ m.layer.type # "group" /\ m.layer.isVisible /\ m.shown
                         /\ (m.layer.type = "generative"
                               \/ hasCanvas(Get(composeInput).psd, m.layer.id))}}

\* Path p comes before path q in depth-first array order
RECURSIVE PathBefore(_, _)
PathBefore(p, q) ==
  IF p = <<>> \/ q = <<>> THEN FALSE
  ELSE IF Head(p) # Head(q) THEN Head(p) < Head(q)
  ELSE PathBefore(Tail(p), Tail(q))

InPaintOrder ==
  \A i \in 1..Len(Painted), j \in 1..Len(Painted) :
    i < j => PathBefore(Painted[i].id, Painted[j].id)

PaintedIds == {Painted[i].id : i \in 1..Len(Painted)}

\* C24 (as stated): the compositor paints exactly the visible leaves under
\* visible ancestors, each once, in depth-first array order, and nothing for
\* a group or an invisible node.
C24_PaintsShownLeaves ==
  IsDef(painted) => (PaintedIds = ShownLeaves /\ InPaintOrder)

\* C24 (amended): the compositor paints exactly the visible leaves under
\* visible ancestors that are generative or whose PSD layer holds a canvas,
\* each once, in depth-first array order, and nothing for a group or an
\* invisible node.
C24_PaintsDrawableShownLeaves ==
  IsDef(painted) =>
    /\ PaintedIds = DrawableLeaves
    /\ InPaintOrder
    /\ \A n \in PaintNodes :
         (n.layer.type = "group" \/ ~n.layer.isVisible) => n.layer.id \notin PaintedIds

\* A leaf two groups deep is painted before the second root layer, next to an
\* invisible group.
C24_Witness ==
  /\ IsDef(painted)
  /\ Len(Painted) = 2
  /\ Painted[1].id = <<0, 0, 0>> /\ Painted[2].id = <<1>>
  /\ \E n \in PaintNodes : n.layer.type = "group" /\ n.layer.isVisible
  /\ \E n \in PaintNodes : n.layer.id = <<0, 1>> /\ ~n.layer.isVisible

(***************************************************************************)
(* Properties of the slot (checked under Spec).                            *)
(***************************************************************************)
StoredAfter(f) == CurField(Lookup(payloadRegistry', Handle), f)

\* C1: when two calls of one slot overlap, the image of the earlier-issued
\* call never replaces a stored previewUrl that the later-issued call
\* produced, whichever call completes first.
C1_EarlierNeverReplacesLater ==
  [][\A c \in calls :
       (/\ c \notin calls'
        /\ \E k \in (c.seq + 1)..issued : Stored("previewUrl") = Def(ImageUrl(k)))
       => StoredAfter("previewUrl") # Def(ImageUrl(c.seq))]_vars

\* The slot is at rest: no render pending and no call in flight.
Quiescent == ~dirty /\ calls = {}

\* C3: after a generation attempt that ended without an image (it threw,
\* returned no image, or could not be issued) the slot comes to rest with a
\* stored payload that is not synthesizing, and the failure left the stored
\* previewUrl as it was.
C3_FailedAttemptNotSynthesizing ==
  (/\ Quiescent
   /\ attempt.outcome \in {"throw", "noimage", "nokey"}
   /\ StorePayload # Undefined)
  => (~Truthy(Stored("isSynthesizing")) /\ attempt.previewKept)

\* C4: a generation call is issued for a slot only if no call has been
\* issued for the current prompt value since the prompt last changed.
C4_OneCallPerPrompt ==
  [][issued' > issued => promptAttempt = "none"]_vars

\* ---------------------------------------------------------------------------
\* Feedback of the reviewer and the slot's preview
\* ---------------------------------------------------------------------------

\* The render whose feedback monitor sees other overrides than the ones it
\* remembered, while the store's payload holds a preview.
MonitorSeesChange ==
  /\ Recompute
  /\ overridesOf(SlotFeedback) # overridesOf(prevFeedbackRef)
  /\ IsDef(Stored("previewUrl"))

\* C11: when the feedback overrides of the slot change while the stored
\* payload holds a previewUrl, the stored payload has no previewUrl and is
\* not confirmed once the render that sees the change has run its effects.
C11_FeedbackChangeDropsPreview ==
  [][MonitorSeesChange =>
       /\ StoredAfter("previewUrl") = Undefined
       /\ ~Truthy(StoredAfter("isConfirmed"))]_vars

\* A step that is neither a commit nor a reset of the reviewer.
NotTheReviewer == ~handleCommit /\ ~handleReset

\* C12: a committed FeedbackStrategy stays in the store unchanged through
\* every step that is not a commit or a reset of the reviewer (no node is
\* removed in this model).
C12_FeedbackPersists ==
  [][(IsDef(SlotFeedback) /\ NotTheReviewer) =>
       feedbackRegistry' = feedbackRegistry]_vars

updatePreview(registry, handleId, url) ==
  LET currentPayload == Lookup(registry, handleId)
  IN IF currentPayload = Undefined THEN registry
     ELSE IF Get(currentPayload).previewUrl = Def(url) THEN registry
     ELSE Put(registry, handleId, [Get(currentPayload) EXCEPT !.previewUrl = Def(url)])

\* flushPipelineInstance, on the payload registry: the node's record without
\* the handle.
flushPipelineInstance(registry, handleId) ==
  [h \in DOMAIN registry \ {handleId} |-> registry[h]]

\* The payloads a node registers for a slot.
StoreIncoming ==
  {IncomingPayload(st, gid, ga, mand, Undefined, Def(TRUE), Def(FALSE), Def(FALSE), conf, shape) : st \in {Def("success"), Def("idle")}, gid \in {Undefined, Def(MaxGenId)}, ga \in OptBool, mand \in {Undefined, Def(TRUE)}, conf \in {Def(TRUE), Def(FALSE)}, shape \in StoredShapes}

\* The urls updatePreview is given.
PreviewUrls == {"blob:1"}

StoreInit == FeedbackInit

\* What no store operation touches.
StoreFrame ==
  UNCHANGED <<strategy, globalGenerationAllowed, instanceAllowed, confirmations,
              isGeneratingPreview, lastPromptsRef, dirty, apiKey, attempt,
              promptAttempt, feedbackRegistry, prevFeedbackRef, heldUnregister,
              storeChanged, rvars, gvars, ovars>>

\* registerPayload(id, handle, payload, masterOverride)
StoreRegister ==
  /\ \E payload \in StoreIncoming, masterOverride \in BOOLEAN :
       payloadRegistry' = registerPayload(payloadRegistry, Handle, payload, masterOverride)
  /\ UNCHANGED <<calls, issued, now>>
  /\ StoreFrame

\* generateDraft, up to the await: the slot is marked as synthesizing and
\* the call is in flight. The effect starts a draft for an instance whose
\* payload, registered by the effect before it, allows generation.
StoreStartDraft ==
  /\ Truthy(Stored("generationAllowed"))
  /\ issued < MaxCalls
  /\ calls' = calls \cup {[seq |-> issued + 1, prompt |-> Def("p1")]}
  /\ issued' = issued + 1
  /\ payloadRegistry' = updatePayload(payloadRegistry, Handle, [isSynthesizing |-> Def(TRUE)])
  /\ UNCHANGED now
  /\ StoreFrame

\* generateDraft, after the await, with an image: the late result.
StoreDraftImage ==
  /\ \E c \in calls, t \in Times :
       /\ now' = t
       /\ calls' = calls \ {c}
       /\ payloadRegistry' =
            updatePayload(payloadRegistry, Handle,
              [previewUrl |-> Def(ImageUrl(c.seq)),
               isTransient |-> Def(TRUE),
               isSynthesizing |-> Def(FALSE),
               generationId |-> Def(t)])
  /\ UNCHANGED issued
  /\ StoreFrame

\* generateDraft, after the await, in the catch block.
StoreDraftThrows ==
  /\ \E c \in calls :
       /\ calls' = calls \ {c}
       /\ payloadRegistry' = updatePayload(payloadRegistry, Handle, [isSynthesizing |-> Def(FALSE)])
  /\ UNCHANGED <<issued, now>>
  /\ StoreFrame

\* handleConfirmGeneration's write: the stored preview is confirmed.
StoreConfirm ==
  /\ IsDef(Stored("previewUrl"))
  /\ \E t \in Times :
       /\ now' = t
       /\ payloadRegistry' =
            updatePayload(payloadRegistry, Handle,
              [previewUrl |-> Stored("previewUrl"),
               isConfirmed |-> Def(TRUE),
               isTransient |-> Def(FALSE),
               sourceReference |-> Stored("previewUrl"),
               generationId |-> Def(t)])
  /\ UNCHANGED <<calls, issued>>
  /\ StoreFrame

\* updatePreview(id, handle, url)
StorePreview ==
  /\ \E url \in PreviewUrls :
       payloadRegistry' = updatePreview(payloadRegistry, Handle, url)
  /\ UNCHANGED <<calls, issued, now>>
  /\ StoreFrame

\* flushPipelineInstance(id, handle): the slot leaves the store; a call in
\* flight is not cancelled.
StoreFlush ==
  /\ payloadRegistry' = flushPipelineInstance(payloadRegistry, Handle)
  /\ UNCHANGED <<calls, issued, now>>
  /\ StoreFrame

\* unregisterNode(id), by a callback that sees the node's record.
StoreUnregister ==
  /\ payloadRegistry' = unregisterNode(payloadRegistry # NoHandles, payloadRegistry, NoHandles)
  /\ UNCHANGED <<calls, issued, now>>
  /\ StoreFrame

StoreNext ==
  \/ StoreRegister
  \/ StoreStartDraft
  \/ StoreDraftImage
  \/ StoreDraftThrows
  \/ StoreConfirm
  \/ StorePreview
  \/ StoreFlush
  \/ StoreUnregister

SpecStore == StoreInit /\ [][StoreNext]_vars

\* The stored payload of the slot is either absent or obeys the gate: with
\* generationAllowed false it has no preview and is not confirmed.
GateObeyed(registry) ==
  \A h \in DOMAIN registry :
    registry[h].generationAllowed = Def(FALSE) =>
      /\ registry[h].previewUrl = Undefined
      /\ registry[h].isConfirmed = Def(FALSE)

\* C26: after any sequence of store operations on a slot, a stored payload
\* whose generationAllowed is false has no previewUrl and is not confirmed.
C26_DisabledHasNoPreview == GateObeyed(payloadRegistry)

\* Every store operation other than updatePreview keeps the gate obeyed.
ReconciledWritesObeyGate ==
  [][GateObeyed(payloadRegistry) /\ ~StorePreview => GateObeyed(payloadRegistry')]_vars

\* C28: once the slot has left the store, the completion of a call that was
\* in flight creates no payload entry for it. (A call starts on a stored
\* payload, so an empty record with a call in flight is a removed slot.)
C28_LateResultCreatesNoEntry ==
  [][StoreDraftImage /\ payloadRegistry = NoHandles => payloadRegistry' = NoHandles]_vars

\* The completion that carries no image: the catch block's partial has
\* neither sourceContainer nor previewUrl and is dropped.
ThrowCreatesNoEntry ==
  [][StoreDraftThrows /\ payloadRegistry = NoHandles => payloadRegistry' = NoHandles]_vars

\* C27: while the node is mounted (no step of this model deletes or
\* unmounts it), no step removes the node's record from the payload registry
\* or from the feedback registry, whichever registry the step replaces.
C27_MountedKeepsEntries ==
  [][/\ payloadRegistry # NoHandles => payloadRegistry' # NoHandles
     /\ IsDef(feedbackRegistry) => IsDef(feedbackRegistry')]_vars


(***************************************************************************)
(* The reviewer node downstream of the slot: its mirror effect and its     *)
(* Verify button (checked under SpecReviewer). The edge into source-in-0   *)
(* comes from the slot's handle; the reviewer writes its own result-out-0. *)
(***************************************************************************)

\* payloadRegistry[edge.source]?.[edge.sourceHandle]
sourcePayload == Lookup(payloadRegistry, Handle)

\* payloadRegistry[id]?.['result-out-0'] of the reviewer
myOutput == Lookup(reviewerOutput, Handle)

\* What JSON.stringify({layers, genId, prev}) tells apart: an undefined
\* value is left out, and so is every value of a missing payload.
Sig(payload) ==
  <<CurField(payload, "layers"), CurField(payload, "generationId"), CurField(payload, "previewUrl")>>

\* The mirror effect, for an instance whose signature differs from the
\* upstream payload's: updatePayload(id, handle, {...sourcePayload,
\* isPolished: false}).
Mirror ==
  /\ IsDef(sourcePayload)
  /\ Sig(sourcePayload) # Sig(myOutput)
  /\ reviewerOutput' = updatePayload(reviewerOutput, Handle, [Get(sourcePayload) EXCEPT !.isPolished = Def(FALSE)])
  /\ UNCHANGED <<composeInput, painted, spinning, rvars, svars, gvars>>

\* handleVerify: updatePayload(id, handle, {...sourcePayload, isPolished:
\* true, status: 'success'}).
handleVerify ==
  /\ IsDef(sourcePayload)
  /\ reviewerOutput' = updatePayload(reviewerOutput, Handle, [Get(sourcePayload) EXCEPT !.isPolished = Def(TRUE), !.status = Def("success")])
  /\ UNCHANGED <<composeInput, painted, spinning, rvars, svars, gvars>>

ReviewerInit == FeedbackInit

ReviewerNext ==
  \/ FeedbackNext
  \/ Mirror
  \/ handleVerify

SpecReviewer == ReviewerInit /\ [][ReviewerNext]_vars

OutputAfter(f) == CurField(Lookup(reviewerOutput', Handle), f)

\* C29: once the mirror effect has run on an upstream payload whose layers,
\* generationId or previewUrl differ from the output's, the reviewer's
\* output holds the upstream layers and is not polished; and an unpolished
\* output stays unpolished through every step that is not a verify.
C29_MirrorInvalidatesVerification ==
  [][/\ Mirror => /\ OutputAfter("layers") = CurField(sourcePayload, "layers")
                  /\ OutputAfter("isPolished") = Def(FALSE)
     /\ (CurField(myOutput, "isPolished") = Def(FALSE) /\ ~handleVerify)
          => OutputAfter("isPolished") = Def(FALSE)]_vars

\* At rest: with no call in flight and a mirror effect that has nothing
\* left to write, an output whose signature differs from the upstream
\* payload's still holds the upstream layers.
SettledMirrorHoldsLayers ==
  (/\ IsDef(sourcePayload) /\ IsDef(myOutput) /\ calls = {}
   /\ Sig(sourcePayload) # Sig(myOutput)
   /\ updatePayload(reviewerOutput, Handle, [Get(sourcePayload) EXCEPT !.isPolished = Def(FALSE)]) = reviewerOutput)
    => CurField(myOutput, "layers") = CurField(sourcePayload, "layers")

(***************************************************************************)
(* The slot with its renders observed (checked under SpecSettle). A render *)
(* that leaves every variable of the slot as it found it is invisible as a *)
(* step; the history variable records the ones that replaced a registry on *)
(* the way. The render is a function of the slot's state, so such a render *)
(* is followed by the same render for as long as the inputs stay as they   *)
(* are.                                                                    *)
(***************************************************************************)
RecomputeObserved ==
  /\ RenderSlot
  /\ spinning' = (spinning \/ (svars' = svars /\ storeChanged'))
  /\ UNCHANGED <<composeInput, painted, reviewerOutput>>

SettleInit == FeedbackInit

SettleNext ==
  \/ handleConfirmGeneration
  \/ handleCommit
  \/ handleReset
  \/ RecomputeObserved
  \/ DraftReturnsImage
  \/ DraftReturnsNoImage
  \/ DraftThrows

SpecSettle == SettleInit /\ [][SettleNext]_vars

\* C30: with the inputs fixed and no generation call issued, the cycle of
\* recomputing and registering comes to rest: no render replaces a registry
\* and hands the next render the state it started from.
C30_RegistrationSettles == ~spinning

====
